---- MODULE Spec2Model ----
(***************************************************************************)
(* XEO score prediction engine: the weighted scorer, the score predictor   *)
(* with its profile cache, the profile page with its sessionStorage cache  *)
(* and the post editor's target-post effects.                              *)
(*                                                                         *)
(* Probabilities and scores are Python floats in the source.  They are     *)
(* modelled as exact fixed-point integers: a probability p is the integer  *)
(* p * Scale, a score s is the integer s * Scale.  Scale is chosen so that *)
(* every constant and every quotient of the source is an integer.          *)
(***************************************************************************)
EXTENDS Integers, Sequences, FiniteSets, TLC

\* ------------------------------------------------------------------ bounds
\* fixed-point unit: 1.0 is Scale (divisible by 10000, 5600, 20, 3 and 4)
Scale == 10000 * 840
\* largest hashtag_count drawn for a post
MaxHashtags == 4
\* char_count is drawn from multiples of CharStep up to CharStep * MaxCharSteps
CharStep == 50
MaxCharSteps == 11
\* largest magnitude of an arbitrary boost, in units of 1 / BoostUnit
MaxBoost == 30
\* largest average engagement rate drawn for a profile, in percent
MaxRatePct == 100
\* longest post history the profile provider returns
MaxTweets == 2
\* fetches the profile page may have in flight at once
MaxFetches == 3
\* times the backend's data for a handle changes
MaxVersion == 1
\* the clock advances MaxTicks times by TickMinutes
MaxTicks == 1
TickMinutes == 60

\* n ten-thousandths as a fixed-point number (0.0001 = Prob(1))
Prob(n) == n * (Scale \div 10000)

Max2(a, b) == IF a >= b THEN a ELSE b
Min2(a, b) == IF a <= b THEN a ELSE b

\* ------------------------------------------------ weighted_scorer.py tables
PositiveActions ==
    {"p_favorite", "p_reply", "p_repost", "p_quote", "p_click",
     "p_profile_click", "p_share", "p_dwell", "p_video_view", "p_follow_author"}
NegativeActions ==
    {"p_not_interested", "p_block_author", "p_mute_author", "p_report"}
\* the 14 fields of ActionProbabilities
Actions == PositiveActions \cup NegativeActions

Dimensions == {"reach", "engagement", "virality", "quality", "longevity"}

\* SCORE_WEIGHTS, in hundredths
SCORE_WEIGHTS ==
    [reach      |-> [p_click |-> 40, p_profile_click |-> 30, p_dwell |-> 30],
     engagement |-> [p_favorite |-> 35, p_reply |-> 35, p_quote |-> 15,
                     p_not_interested |-> -15],
     virality   |-> [p_repost |-> 40, p_quote |-> 30, p_share |-> 30],
     quality    |-> [p_favorite |-> 25, p_dwell |-> 25, p_not_interested |-> -20,
                     p_block_author |-> -15, p_mute_author |-> -10,
                     p_report |-> -30],
     longevity  |-> [p_dwell |-> 30, p_video_view |-> 25, p_follow_author |-> 25,
                     p_favorite |-> 20]]

\* FEATURE_IMPACTS: the tables estimate_probabilities iterates over
FEATURE_IMPACTS ==
    [has_question |-> [p_reply |-> Prob(1500), p_favorite |-> Prob(500)],
     has_cta      |-> [p_reply |-> Prob(1000), p_click |-> Prob(800)],
     has_emoji    |-> [p_favorite |-> Prob(500), p_dwell |-> Prob(300)],
     has_media    |-> [p_click |-> Prob(2000), p_dwell |-> Prob(1500),
                       p_repost |-> Prob(1000)]]

\* ------------------------------------------------------ feature_extractor.py
MediaTypes == {"image", "video", "gif", "none"}

\* optimal_length without the floor of 0.5 above the band
optimal_length_NoFloor(char_count) ==
    IF 70 <= char_count /\ char_count <= 200 THEN Scale
    ELSE IF char_count < 70 THEN char_count * (Scale \div 70)
    ELSE Scale - (char_count - 200) * (Scale \div 280)

\* PostFeatures.optimal_length as a fixed-point number
optimal_length(char_count) ==
    IF 70 <= char_count /\ char_count <= 200 THEN Scale
    ELSE IF char_count < 70 THEN char_count * (Scale \div 70)
    ELSE Max2(Scale \div 2, Scale - (char_count - 200) * (Scale \div 280))

\* PostFeatures as extract_post_features builds it from a post whose text has
\* the given shape: has_media is derived from media_type
PostFeatures(char_count, has_question, has_cta, has_emoji, media_type, hashtag_count, is_quote) ==
    [char_count |-> char_count, has_question |-> has_question,
     has_cta |-> has_cta, has_emoji |-> has_emoji,
     has_media |-> (media_type # "none"), media_type |-> media_type,
     hashtag_count |-> hashtag_count, is_quote |-> is_quote]

\* ------------------------------------------------------ weighted_scorer.py
\* Optional[dict]: <<>> is None, <<m>> is the dict m
None == <<>>
Some(m) == <<m>>
\* a boost b in a context_boost map stands for b / BoostUnit
BoostUnit == 4 * 5

\* add the increments of one FEATURE_IMPACTS table to the probabilities
ApplyImpacts(probs, impacts) ==
    [a \in Actions |->
        probs[a] + (IF a \in DOMAIN impacts THEN impacts[a] ELSE 0)]

\* the boost added to the probability instead of scaling it
ApplyBoost_Additive(probs, boost) ==
    [a \in Actions |->
        IF a \in DOMAIN boost
        THEN probs[a] + (Scale * boost[a]) \div BoostUnit
        ELSE probs[a]]

\* current * (1 + boost) for every field named in the map (hasattr guard)
ApplyBoost(probs, boost) ==
    [a \in Actions |->
        IF a \in DOMAIN boost
        THEN (probs[a] * (BoostUnit + boost[a])) \div BoostUnit
        ELSE probs[a]]

\* the final loop of estimate_probabilities
\* Clamp01 without the upper bound
Clamp01_NoUpperBound(probs) == [a \in Actions |-> Max2(0, probs[a])]
Clamp01(probs) == [a \in Actions |-> Max2(0, Min2(Scale, probs[a]))]

\* estimate_probabilities up to the context boost: the base probabilities
\* and the feature-based adjustments
feature_probabilities(post_features, profile_features) ==
    LET base_engagement == profile_features.avg_engagement_rate
        p0 == [a \in Actions |->
                 CASE a = "p_favorite"       -> (base_engagement * 60) \div 100
                   [] a = "p_reply"          -> (base_engagement * 15) \div 100
                   [] a = "p_repost"         -> (base_engagement * 15) \div 100
                   [] a = "p_quote"          -> (base_engagement * 5) \div 100
                   [] a = "p_click"          -> Prob(2000)
                   [] a = "p_profile_click"  -> Prob(1000)
                   [] a = "p_share"          -> (base_engagement * 5) \div 100
                   [] a = "p_dwell"          -> Prob(3000)
                   [] a = "p_video_view"     -> 0
                   [] a = "p_follow_author"  -> Prob(50)
                   [] a = "p_not_interested" -> Prob(500)
                   [] a = "p_block_author"   -> Prob(10)
                   [] a = "p_mute_author"    -> Prob(20)
                   [] a = "p_report"         -> Prob(1)]
        p1 == IF post_features.has_question
              THEN ApplyImpacts(p0, FEATURE_IMPACTS.has_question) ELSE p0
        p2 == IF post_features.has_cta
              THEN ApplyImpacts(p1, FEATURE_IMPACTS.has_cta) ELSE p1
        p3 == IF post_features.has_emoji
              THEN ApplyImpacts(p2, FEATURE_IMPACTS.has_emoji) ELSE p2
        p4 == IF post_features.has_media
              THEN ApplyImpacts(p3, FEATURE_IMPACTS.has_media) ELSE p3
        p5 == IF post_features.has_media /\ post_features.media_type = "video"
              THEN [p4 EXCEPT !["p_video_view"] = Prob(5000),
                              !["p_dwell"] = @ + Prob(2500)]
              ELSE p4
        length_score == optimal_length(post_features.char_count)
        p6 == [p5 EXCEPT !["p_dwell"] = @ + length_score \div 10,
                         !["p_favorite"] = @ + length_score \div 20]
        p7 == IF post_features.hashtag_count > 0
              THEN [p6 EXCEPT !["p_click"] =
                        @ + Prob(300) * Min2(post_features.hashtag_count, 3)]
              ELSE p6
        p8 == IF post_features.is_quote
              THEN [p7 EXCEPT !["p_quote"] = @ - Prob(1000),
                              !["p_repost"] = @ + Prob(500)]
              ELSE p7
    IN  p8

\* WeightedScorer.estimate_probabilities; `if context_boost:` skips None and
\* the empty dict, on which the boost loop changes nothing
estimate_probabilities(post_features, profile_features, context_boost) ==
    Clamp01(ApplyBoost(feature_probabilities(post_features, profile_features),
                       IF context_boost # None THEN context_boost[1] ELSE <<>>))

\* sum of prob * weight over the fields of one SCORE_WEIGHTS table
RECURSIVE WeightedSum(_, _, _)
WeightedSum(probs, weights, todo) ==
    IF todo = {} THEN 0
    ELSE LET a == CHOOSE x \in todo : TRUE
         IN  probs[a] * weights[a] + WeightedSum(probs, weights, todo \ {a})

\* calc_dimension: min(100, max(0, score * 200)); weights are hundredths, so
\* score * 200 is the weighted sum times 2
calc_dimension(probs, dimension) ==
    LET weights == SCORE_WEIGHTS[dimension]
        score == WeightedSum(probs, weights, DOMAIN weights)
    IN  Min2(100 * Scale, Max2(0, score * 2))

\* WeightedScorer.calculate_scores
calculate_scores(probs) ==
    [reach      |-> calc_dimension(probs, "reach"),
     engagement |-> calc_dimension(probs, "engagement"),
     virality   |-> calc_dimension(probs, "virality"),
     quality    |-> calc_dimension(probs, "quality") + 50 * Scale,
     longevity  |-> calc_dimension(probs, "longevity")]

\* ProfileFeatures with the given average engagement rate (fixed point)
ProfileWithRate(rate) ==
    [username |-> "u", tweet_count |-> 20, avg_engagement_rate |-> rate,
     avg_likes |-> 0, avg_retweets |-> 0, avg_replies |-> 0, avg_views |-> 0,
     retweet_ratio |-> 0, quote_ratio |-> 0, media_ratio |-> 0,
     engagement_consistency |-> Scale]

\* the record extract_profile_features returns for an empty history
ZeroProfile(username) ==
    [username |-> username, tweet_count |-> 0, avg_engagement_rate |-> 0,
     avg_likes |-> 0, avg_retweets |-> 0, avg_replies |-> 0, avg_views |-> 0,
     retweet_ratio |-> 0, quote_ratio |-> 0, media_ratio |-> 0,
     engagement_consistency |-> 0]

\* ------------------------------------------------------ feature_extractor.py
\* floor of the square root, by bisection on lo..hi
RECURSIVE ISqrtIn(_, _, _)
ISqrtIn(v, lo, hi) ==
    IF lo >= hi THEN lo
    ELSE LET mid == (lo + hi + 1) \div 2
         IN  IF mid * mid <= v THEN ISqrtIn(v, mid, hi)
             ELSE ISqrtIn(v, lo, mid - 1)
ISqrt(v) == ISqrtIn(v, 0, 40000)

RECURSIVE SumSeq(_)
SumSeq(seq) == IF seq = <<>> THEN 0 ELSE Head(seq) + SumSeq(Tail(seq))

\* extract_profile_features with the sample variance (n - 1) in place of the
\* population variance
extract_profile_features_SampleVariance(profile) ==
    LET tweets == profile.tweets
        n == Len(tweets)
        engagement_rates == [i \in 1..n |-> tweets[i].engagement_rate]
        avg_engagement == SumSeq(engagement_rates) \div n
        mean == avg_engagement \div Prob(1)
        variance ==
            SumSeq([i \in 1..n |->
                (engagement_rates[i] \div Prob(1) - mean)
                    * (engagement_rates[i] \div Prob(1) - mean)]) \div (n - 1)
        consistency ==
            IF n > 1 THEN Prob((10000 * 10000) \div (10000 + ISqrt(variance)))
            ELSE Scale
    IN  IF n = 0 THEN ZeroProfile(profile.username)
        ELSE [username |-> profile.username, tweet_count |-> n,
              avg_engagement_rate |-> avg_engagement,
              avg_likes |-> profile.avg_likes,
              avg_retweets |-> profile.avg_retweets,
              avg_replies |-> profile.avg_replies,
              avg_views |-> profile.avg_views,
              retweet_ratio |-> profile.retweet_ratio,
              quote_ratio |-> profile.quote_ratio,
              media_ratio |-> profile.media_ratio,
              engagement_consistency |-> consistency]

\* extract_profile_features without its early return for an empty history
extract_profile_features_NoEarlyReturn(profile) ==
    LET tweets == profile.tweets
        n == Len(tweets)
        engagement_rates == [i \in 1..n |-> tweets[i].engagement_rate]
        avg_engagement == IF n = 0 THEN 0 ELSE SumSeq(engagement_rates) \div n
        mean == avg_engagement \div Prob(1)
        variance ==
            SumSeq([i \in 1..n |->
                (engagement_rates[i] \div Prob(1) - mean)
                    * (engagement_rates[i] \div Prob(1) - mean)]) \div n
        consistency ==
            IF n > 1 THEN Prob((10000 * 10000) \div (10000 + ISqrt(variance)))
            ELSE Scale
    IN  [username |-> profile.username, tweet_count |-> n,
         avg_engagement_rate |-> avg_engagement,
         avg_likes |-> profile.avg_likes,
         avg_retweets |-> profile.avg_retweets,
         avg_replies |-> profile.avg_replies,
         avg_views |-> profile.avg_views,
         retweet_ratio |-> profile.retweet_ratio,
         quote_ratio |-> profile.quote_ratio,
         media_ratio |-> profile.media_ratio,
         engagement_consistency |-> consistency]

\* extract_profile_features.  Rates are fixed point; the variance and the
\* standard deviation are computed in ten-thousandths (floor of the root),
\* so consistency = 1 / (1 + std_dev) is exact to one ten-thousandth.
extract_profile_features(profile) ==
    LET tweets == profile.tweets
        n == Len(tweets)
        engagement_rates == [i \in 1..n |-> tweets[i].engagement_rate]
        avg_engagement == SumSeq(engagement_rates) \div n
        mean == avg_engagement \div Prob(1)
        variance ==
            SumSeq([i \in 1..n |->
                (engagement_rates[i] \div Prob(1) - mean)
                    * (engagement_rates[i] \div Prob(1) - mean)]) \div n
        std_dev == ISqrt(variance)
        consistency ==
            IF n > 1 THEN Prob((10000 * 10000) \div (10000 + std_dev))
            ELSE Scale
    IN  IF n = 0
        THEN [username |-> profile.username, tweet_count |-> 0,
              avg_engagement_rate |-> 0, avg_likes |-> 0, avg_retweets |-> 0,
              avg_replies |-> 0, avg_views |-> 0, retweet_ratio |-> 0,
              quote_ratio |-> 0, media_ratio |-> 0,
              engagement_consistency |-> 0]
        ELSE [username |-> profile.username, tweet_count |-> n,
              avg_engagement_rate |-> avg_engagement,
              avg_likes |-> profile.avg_likes,
              avg_retweets |-> profile.avg_retweets,
              avg_replies |-> profile.avg_replies,
              avg_views |-> profile.avg_views,
              retweet_ratio |-> profile.retweet_ratio,
              quote_ratio |-> profile.quote_ratio,
              media_ratio |-> profile.media_ratio,
              engagement_consistency |-> consistency]

\* --------------------------------------------------------- score_predictor.py
\* the record _get_profile_features returns when the fetch fails
DefaultProfileFeatures(username) ==
    [username |-> username, tweet_count |-> 0,
     avg_engagement_rate |-> Prob(200), avg_likes |-> 100,
     avg_retweets |-> 10, avg_replies |-> 5, avg_views |-> 1000,
     retweet_ratio |-> Prob(2000), quote_ratio |-> Prob(1000),
     media_ratio |-> Prob(5000), engagement_consistency |-> Prob(7000)]

\* dict.get(key, default)
\* a lookup that ignores the entry already in the map
DictGet_IgnoresEntry(d, key, default) == default
DictGet(d, key, default) == IF key \in DOMAIN d THEN d[key] ELSE default
\* d[key] = value
DictSet(d, key, value) ==
    [k \in DOMAIN d \cup {key} |-> IF k = key THEN value ELSE d[k]]

\* time-to-live of a cached profile, in minutes (1 hour)
ProfileTTLMinutes == 60

\* thresholds of _analyze_context
LargeAccountViews == 100000
FreshnessMinutes == 60
ReplyCompetitionReplies == 1000

\* _get_profile_features storing the default record it substitutes
ProfileFromResponse_StoresDefault(cache, username, response) ==
    IF response.success /\ response.profile # None
    THEN LET features == extract_profile_features(response.profile[1])
         IN  [cache |-> [cache EXCEPT ![username] = Some(features)],
              features |-> features, raised |-> FALSE, stored |-> TRUE]
    ELSE [cache |-> [cache EXCEPT ![username] =
                        Some(DefaultProfileFeatures(username))],
          features |-> DefaultProfileFeatures(username),
          raised |-> FALSE, stored |-> TRUE]

\* _get_profile_features letting a failed fetch raise, as
\* ProfileAnalyzer.analyze does
ProfileFromResponse_Raises(cache, username, response) ==
    IF response.success /\ response.profile # None
    THEN LET features == extract_profile_features(response.profile[1])
         IN  [cache |-> [cache EXCEPT ![username] = Some(features)],
              features |-> features, raised |-> FALSE, stored |-> TRUE]
    ELSE [cache |-> cache, features |-> DefaultProfileFeatures(username),
          raised |-> TRUE, stored |-> FALSE]

\* the part of ScorePredictor._get_profile_features that follows the await:
\* the cache after the response, the features returned, and whether the
\* call raised
ProfileFromResponse(cache, username, response) ==
    IF response.success /\ response.profile # None
    THEN LET features == extract_profile_features(response.profile[1])
         IN  [cache |-> [cache EXCEPT ![username] = Some(features)],
              features |-> features, raised |-> FALSE, stored |-> TRUE]
    ELSE [cache |-> cache, features |-> DefaultProfileFeatures(username),
          raised |-> FALSE, stored |-> FALSE]

\* _analyze_context boosting the click probability without a target post
analyze_context_BoostsWithoutTarget(target, now) ==
    [context |-> None,
     context_boost |-> IF target = None THEN Some([p_click |-> 5])
                       ELSE Some([p_click |-> 3])]

\* _analyze_context comparing with >= instead of >, and <= instead of <
analyze_context_NonStrict(target, now) ==
    IF target = None THEN [context |-> None, context_boost |-> None]
    ELSE
    LET target_post == target[1]
        large == target_post.views_count >= LargeAccountViews
        b1 == IF large THEN [p_click |-> 5, p_profile_click |-> 4] ELSE <<>>
        a1 == IF large THEN ("large_account_bonus" :> "+25%") ELSE <<>>
        age_minutes == IF target_post.posted_at # None
                       THEN now - target_post.posted_at[1] ELSE 0
        fresh == target_post.posted_at # None /\ age_minutes <= FreshnessMinutes
        b2 == IF fresh THEN DictSet(b1, "p_click", DictGet(b1, "p_click", 0) + 3)
              ELSE b1
        a2 == IF fresh THEN DictSet(a1, "freshness_bonus", "+15%") ELSE a1
        competition == target_post.replies_count >= ReplyCompetitionReplies
        b3 == IF competition
              THEN DictSet(b2, "p_click", DictGet(b2, "p_click", 0) + (0 - 2))
              ELSE b2
        a3 == IF competition THEN DictSet(a2, "reply_competition", "-10%")
              ELSE a2
    IN  [context |-> Some([target_post |-> target_post,
                           context_adjustments |-> a3,
                           recommendations |-> <<>>]),
         context_boost |-> Some(b3)]

\* the part of ScorePredictor._analyze_context that follows the await, at
\* clock time now (minutes); target is None or Some(TweetData)
analyze_context(target, now) ==
    IF target = None THEN [context |-> None, context_boost |-> None]
    ELSE
    LET target_post == target[1]
        large == target_post.views_count > LargeAccountViews
        b1 == IF large THEN [p_click |-> 5, p_profile_click |-> 4] ELSE <<>>
        a1 == IF large THEN ("large_account_bonus" :> "+25%") ELSE <<>>
        r1 == IF large THEN <<[kind |-> "large_account", arg |-> 0]>> ELSE <<>>
        age_minutes == IF target_post.posted_at # None
                       THEN now - target_post.posted_at[1] ELSE 0
        fresh == target_post.posted_at # None /\ age_minutes < FreshnessMinutes
        b2 == IF fresh THEN DictSet(b1, "p_click", DictGet(b1, "p_click", 0) + 3)
              ELSE b1
        a2 == IF fresh THEN DictSet(a1, "freshness_bonus", "+15%") ELSE a1
        r2 == IF fresh
              THEN Append(r1, [kind |-> "freshness", arg |-> age_minutes])
              ELSE r1
        competition == target_post.replies_count > ReplyCompetitionReplies
        b3 == IF competition
              THEN DictSet(b2, "p_click", DictGet(b2, "p_click", 0) + (0 - 2))
              ELSE b2
        a3 == IF competition THEN DictSet(a2, "reply_competition", "-10%")
              ELSE a2
        r3 == IF competition
              THEN Append(r2, [kind |-> "reply_competition",
                               arg |-> target_post.replies_count])
              ELSE r2
    IN  [context |-> Some([target_post |-> target_post,
                           context_adjustments |-> a3,
                           recommendations |-> r3]),
         context_boost |-> Some(b3)]

generate_quick_tips_RepeatsTip(features) ==
    LET t1 == IF ~features.has_emoji THEN <<"add_emoji">> ELSE <<>>
        t2 == IF ~features.has_question THEN Append(t1, "add_emoji") ELSE t1
        t3 == IF ~features.has_media THEN Append(t2, "add_image") ELSE t2
    IN  SubSeq(t3, 1, Min2(5, Len(t3)))

generate_quick_tips_NonStrict(features) ==
    LET t1 == IF ~features.has_emoji THEN <<"add_emoji">> ELSE <<>>
        t2 == IF ~features.has_question THEN Append(t1, "add_question") ELSE t1
        t3 == IF ~features.has_media THEN Append(t2, "add_image") ELSE t2
        t4 == IF features.char_count <= 50 THEN Append(t3, "add_content")
              ELSE IF features.char_count >= 250 THEN Append(t3, "shorten")
              ELSE t3
        t5 == IF features.hashtag_count = 0 THEN Append(t4, "add_hashtags")
              ELSE IF features.hashtag_count >= 3 THEN Append(t4, "trim_hashtags")
              ELSE t4
    IN  SubSeq(t5, 1, Min2(5, Len(t5)))

\* ScorePredictor._generate_quick_tips
generate_quick_tips(features) ==
    LET t1 == IF ~features.has_emoji THEN <<"add_emoji">> ELSE <<>>
        t2 == IF ~features.has_question THEN Append(t1, "add_question") ELSE t1
        t3 == IF ~features.has_media THEN Append(t2, "add_image") ELSE t2
        t4 == IF features.char_count < 50 THEN Append(t3, "add_content")
              ELSE IF features.char_count > 250 THEN Append(t3, "shorten")
              ELSE t3
        t5 == IF features.hashtag_count = 0 THEN Append(t4, "add_hashtags")
              ELSE IF features.hashtag_count > 3 THEN Append(t4, "trim_hashtags")
              ELSE t4
    IN  SubSeq(t5, 1, Min2(5, Len(t5)))

\* the tail of ScorePredictor.predict once the profile features and the
\* context are known: analyze_post, quick tips, PostAnalysisResult
PredictResult(post_features, profile_features, ctx) ==
    LET probs == estimate_probabilities(post_features, profile_features,
                                        ctx.context_boost)
    IN  [scores |-> calculate_scores(probs), probabilities |-> probs,
         features |-> post_features,
         quick_tips |-> generate_quick_tips(post_features),
         context |-> ctx.context]

\* ------------------------------------------------------------------ state
VARIABLES
    \* the weighted scorer applied to one input
    post_features, profile_features, context_boost, probs, scores, scorer_pc,
    \* ScorePredictor: self._profile_cache, the requests being served, the
    \* wall clock (minutes), and the calls made to the two providers
    profile_cache, req, now, profile_calls, context_calls,
    \* history variable: when each cache entry was written
    cached_at,
    \* ProfilePage: the mounted page's state, the browser's sessionStorage,
    \* the analyzeProfile calls in flight, and the backend's data
    page, sessionStorage, fetches, backend_version, backend_cache,
    \* history variable: the value the last completed refresh brought
    last_refresh,
    \* PostEditor: the component's state, the pending debounce timer, and the
    \* getPostContext / generatePersonalizedPost calls in flight
    editor, debounce, target_fetches, personalized_fetches,
    \* PostEditor's analysis: the revision of the component (with or without
    \* the auto-analyze effect), the pending auto-analyze timer, and the
    \* api.analyzePost and api.applyTips calls made so far
    auto_analyze, analyze_timer, analyze_calls, apply_calls,
    \* polishing: PostEditor's `polishing` state, the api.polishPost calls
    \* made so far, and a mounted PolishButtons with its caller's text
    polishing, polish_calls, polish_buttons,
    \* _generate_quick_tips applied to one post's features
    tips_pc, tips_features, quick_tips,
    \* optimal_length read on a post and on the post one character longer
    length_pc, length_chars, length_scores,
    \* _analyze_context applied to one target post: the provider's answer,
    \* the clock (minutes) and the (context, context_boost) pair returned
    context_pc, context_target, context_now, context_result,
    \* the OG image route: one GET request being handled
    og

scorerVars ==
    <<post_features, profile_features, context_boost, probs, scores, scorer_pc>>
predictorVars ==
    <<profile_cache, req, now, profile_calls, context_calls, cached_at>>
pageVars ==
    <<page, sessionStorage, fetches, backend_version, backend_cache,
      last_refresh>>
editorVars ==
    <<editor, debounce, target_fetches, personalized_fetches, analyze_timer>>
analysisVars == <<auto_analyze, analyze_calls, apply_calls>>
polishVars == <<polishing, polish_calls, polish_buttons>>
contextVars == <<context_pc, context_target, context_now, context_result>>
tipsVars == <<tips_pc, tips_features, quick_tips>>
lengthVars == <<length_pc, length_chars, length_scores>>
vars ==
    <<scorerVars, predictorVars, pageVars, editorVars, analysisVars, polishVars,
      contextVars, tipsVars, lengthVars, og>>

\* what a step of one component leaves alone
besidesScorer ==
    <<predictorVars, pageVars, editorVars, polishVars, contextVars, tipsVars,
      og, lengthVars, analysisVars>>
besidesPredictor ==
    <<scorerVars, pageVars, editorVars, polishVars, contextVars, tipsVars, og,
      lengthVars, analysisVars>>
besidesPage ==
    <<scorerVars, predictorVars, editorVars, polishVars, contextVars,
      tipsVars, og, lengthVars, analysisVars>>
besidesEditor ==
    <<scorerVars, predictorVars, pageVars, polishVars, contextVars, tipsVars,
      og, lengthVars, analysisVars>>
besidesPolish ==
    <<scorerVars, predictorVars, pageVars, contextVars, tipsVars, og,
      lengthVars, analysisVars>>
besidesContext ==
    <<scorerVars, predictorVars, pageVars, editorVars, polishVars, tipsVars,
      og, lengthVars, analysisVars>>
besidesTips ==
    <<scorerVars, predictorVars, pageVars, editorVars, polishVars,
      contextVars, og, lengthVars, analysisVars>>
besidesOg ==
    <<scorerVars, predictorVars, pageVars, editorVars, polishVars,
      contextVars, tipsVars, lengthVars, analysisVars>>
besidesLength ==
    <<scorerVars, predictorVars, pageVars, editorVars, polishVars,
      contextVars, tipsVars, og, analysisVars>>
besidesAnalysis ==
    <<scorerVars, predictorVars, pageVars, polishVars, contextVars, tipsVars,
      lengthVars, og>>

\* ---------------------------------------------------- the scorer's inputs
CharCounts == {CharStep * i : i \in 0..MaxCharSteps}
PostFeatureInputs ==
    {PostFeatures(c, q, cta, e, m, h, iq) :
        c \in CharCounts, q \in BOOLEAN, cta \in BOOLEAN, e \in BOOLEAN,
        m \in MediaTypes, h \in 0..MaxHashtags, iq \in BOOLEAN}
ProfileInputs ==
    {ZeroProfile("u")} \cup
    {ProfileWithRate(pct * (Scale \div 100)) : pct \in {2, MaxRatePct}}
\* the maps _analyze_context can build, and arbitrary single-key maps
BoostInputs ==
    {None, Some(<<>>)} \cup
    {Some([p_click |-> 5, p_profile_click |-> 4]),
     Some([p_click |-> 8, p_profile_click |-> 4]),
     Some([p_click |-> 6, p_profile_click |-> 4]),
     Some([p_click |-> -2])} \cup
    {Some(a :> b) : a \in {"p_click", "p_favorite", "p_unknown"},
                    b \in {-MaxBoost, MaxBoost}}
\* the corners of [0,1]^14
CornerProbs == [Actions -> {0, Scale}]

NoProbs == [a \in Actions |-> 0]
NoScores == [d \in Dimensions |-> 0]

\* the scorer when another component is the one under study
ScorerIdle ==
    /\ scorer_pc = "off"
    /\ post_features = PostFeatures(0, FALSE, FALSE, FALSE, "none", 0, FALSE)
    /\ profile_features = ZeroProfile("u")
    /\ context_boost = None
    /\ probs = NoProbs
    /\ scores = NoScores

InitScorer ==
    /\ scores = NoScores
    /\ \/ /\ scorer_pc = "input"
          /\ post_features \in PostFeatureInputs
          /\ profile_features \in ProfileInputs
          /\ context_boost \in BoostInputs
          /\ probs = NoProbs
       \/ /\ scorer_pc = "given"
          /\ post_features = PostFeatures(0, FALSE, FALSE, FALSE, "none", 0, FALSE)
          /\ profile_features = ZeroProfile("u")
          /\ context_boost = None
          /\ probs \in CornerProbs

\* probs = scorer.estimate_probabilities(post_features, profile_features, boost)
Estimate ==
    /\ scorer_pc = "input"
    /\ probs' = estimate_probabilities(post_features, profile_features,
                                       context_boost)
    /\ scorer_pc' = "estimated"
    /\ UNCHANGED <<post_features, profile_features, context_boost, scores>>
    /\ UNCHANGED besidesScorer

\* scores = scorer.calculate_scores(probs)
Score ==
    /\ scorer_pc \in {"estimated", "given"}
    /\ scores' = calculate_scores(probs)
    /\ scorer_pc' = "scored"
    /\ UNCHANGED <<post_features, profile_features, context_boost, probs>>
    /\ UNCHANGED besidesScorer

NextScorer == Estimate \/ Score

\* ------------------------------------------------- the context analyzer
\* the target posts client.get_post_context may return: view and reply counts
\* around the thresholds, and ages (minutes before the clock) around the
\* freshness window; -5 is a post dated after the clock
TargetViews ==
    {0, LargeAccountViews - 1, LargeAccountViews, LargeAccountViews + 1,
     170000000}
TargetReplies ==
    {0, ReplyCompetitionReplies, ReplyCompetitionReplies + 1, 8200}
TargetAges ==
    {0 - 5, 0, 15, FreshnessMinutes - 1, FreshnessMinutes, FreshnessMinutes + 1}
ContextClock == 4 * 60
TweetData(views, replies, posted_at) ==
    [tweet_id |-> "123456", username |-> "elonmusk", views_count |-> views,
     replies_count |-> replies, posted_at |-> posted_at]
TargetInputs ==
    {None} \cup
    {Some(TweetData(v, r, p)) :
        v \in TargetViews, r \in TargetReplies,
        p \in {None} \cup {Some(ContextClock - a) : a \in TargetAges}}

\* the analyzer when another component is the one under study
ContextIdle ==
    /\ context_pc = "off"
    /\ context_target = None
    /\ context_now = 0
    /\ context_result = None

InitContext ==
    /\ context_pc = "fetched"
    /\ context_target \in TargetInputs
    /\ context_now = ContextClock
    /\ context_result = None

\* context, context_boost = await self._analyze_context(target_post_url),
\* after client.get_post_context answered
AnalyzeContext ==
    /\ context_pc = "fetched"
    /\ context_result' = Some(analyze_context(context_target, context_now))
    /\ context_pc' = "analyzed"
    /\ UNCHANGED <<context_target, context_now>>
    /\ UNCHANGED besidesContext

NextContext == AnalyzeContext

\* ----------------------------------------------------- the score predictor
Handles == {"alice", "bob"}
\* the analysis requests the predictor serves, possibly concurrently
ReqIds == 1..2
NoUrl == "none"
GoodUrl == "https://x.com/elonmusk/status/123456"
\* (post_type, target_post_url) pairs a request may carry
RequestKinds ==
    {<<"original", NoUrl>>, <<"original", GoodUrl>>, <<"reply", NoUrl>>,
     <<"reply", GoodUrl>>, <<"quote", GoodUrl>>}
\* shape of the content the requests carry ("Great point! I agree." with a
\* video); the scorer specification varies the content
PredictContents ==
    {[char_count |-> 21, has_question |-> FALSE, has_cta |-> FALSE,
      has_emoji |-> FALSE, media_type |-> "video", hashtag_count |-> 0]}

\* the profile provider's data: the first k posts of the handle's timeline
Timeline == <<[engagement_rate |-> Prob(200)], [engagement_rate |-> Prob(600)],
              [engagement_rate |-> Prob(400)]>>
ProfileData(username, k) ==
    [username |-> username,
     tweets |-> [i \in 1..k |-> Timeline[((i - 1) % Len(Timeline)) + 1]],
     avg_likes |-> 150 * k, avg_retweets |-> 15 * k, avg_replies |-> 7 * k,
     avg_views |-> 1500 * k, retweet_ratio |-> Scale \div 2,
     quote_ratio |-> 0, media_ratio |-> Scale \div 2]
\* what client.get_twitter_profile may answer
ProfileResponses(username) ==
    {[success |-> FALSE, profile |-> None],
     [success |-> TRUE, profile |-> None]} \cup
    {[success |-> TRUE, profile |-> Some(ProfileData(username, k))] :
        k \in 0..MaxTweets}
\* what client.get_post_context may answer at clock time t
TargetResponses(t) ==
    {None,
     Some([tweet_id |-> "123456", username |-> "elonmusk",
           views_count |-> 170000000, replies_count |-> 8200,
           posted_at |-> Some(t - 15)]),
     Some([tweet_id |-> "123456", username |-> "elonmusk",
           views_count |-> 500, replies_count |-> 3, posted_at |-> None])}

NewRequest ==
    [pc |-> "new", username |-> "", post_type |-> "original",
     target_post_url |-> NoUrl,
     post_features |-> PostFeatures(0, FALSE, FALSE, FALSE, "none", 0, FALSE),
     profile_features |-> None, fetched |-> "-", hit_age |-> 0,
     response |-> None, target |-> None, context_at |-> 0,
     result |-> None, status |-> 0]

InitPredictor ==
    /\ profile_cache = [h \in Handles |-> None]
    /\ req = [r \in ReqIds |-> NewRequest]
    /\ now = 0
    /\ profile_calls = [h \in Handles |-> 0]
    /\ context_calls = 0
    /\ cached_at = [h \in Handles |-> 0]

\* predict asking for the context whenever a target URL is given
NeedsContext_AnyPostType(q) == q.target_post_url # NoUrl

\* a lookup that never finds the entry
CacheLookup_AlwaysMisses(cache, username) == None

\* `if username in self._profile_cache: return self._profile_cache[username]`
CacheLookup(cache, username) == cache[username]

\* predict after _get_profile_features returned: either suspend on
\* _analyze_context (reply/quote with a target URL) or finish
NeedsContext(q) ==
    q.post_type \in {"reply", "quote"} /\ q.target_post_url # NoUrl
AfterProfile(q, features) ==
    IF NeedsContext(q)
    THEN [q EXCEPT !.pc = "await_context", !.profile_features = Some(features)]
    ELSE [q EXCEPT !.pc = "done", !.profile_features = Some(features),
                   !.status = 200,
                   !.result = Some(PredictResult(q.post_features, features,
                       [context |-> None, context_boost |-> None]))]

\* POST /analyze arrives: predict runs up to its first suspension
Predict(r) ==
    /\ req[r].pc = "new"
    /\ \A r2 \in ReqIds : r2 < r => req[r2].pc # "new"
    /\ \E username \in Handles, kind \in RequestKinds, c \in PredictContents :
        LET q == [req[r] EXCEPT
                    !.username = username, !.post_type = kind[1],
                    !.target_post_url = kind[2],
                    !.post_features =
                        PostFeatures(c.char_count, c.has_question, c.has_cta,
                                     c.has_emoji, c.media_type,
                                     c.hashtag_count, kind[1] = "quote")]
            cached == CacheLookup(profile_cache, username)
        IN  IF cached # None
            THEN LET q2 == AfterProfile([q EXCEPT !.fetched = "hit",
                               !.hit_age = now - cached_at[username]],
                               cached[1])
                 IN  /\ req' = [req EXCEPT ![r] = q2]
                     /\ context_calls' =
                            context_calls + (IF q2.pc = "await_context" THEN 1 ELSE 0)
                     /\ UNCHANGED profile_calls
            ELSE /\ req' = [req EXCEPT ![r] = [q EXCEPT !.pc = "await_profile"]]
                 /\ profile_calls' =
                        [profile_calls EXCEPT ![username] = @ + 1]
                 /\ UNCHANGED context_calls
    /\ UNCHANGED <<profile_cache, now, cached_at>>
    /\ UNCHANGED besidesPredictor

\* _get_profile_features looking in the cache again after the await and
\* returning the entry another request stored meanwhile
ProfileReturns_ReadsCacheAgain(r) ==
    /\ req[r].pc = "await_profile"
    /\ \E response \in ProfileResponses(req[r].username) :
        LET u == req[r].username
            out == IF profile_cache[u] # None
                   THEN [cache |-> profile_cache, features |-> profile_cache[u][1],
                         raised |-> FALSE, stored |-> FALSE]
                   ELSE ProfileFromResponse(profile_cache, u, response)
            kind == IF ~response.success THEN "fail"
                    ELSE IF response.profile = None THEN "noprofile"
                    ELSE IF Len(response.profile[1].tweets) = 0 THEN "empty"
                    ELSE "ok"
            q == [req[r] EXCEPT !.fetched = kind, !.response = Some(response)]
            q2 == AfterProfile(q, out.features)
        IN  /\ req' = [req EXCEPT ![r] = q2]
            /\ profile_cache' = out.cache
            /\ cached_at' = IF out.stored THEN [cached_at EXCEPT ![u] = now]
                            ELSE cached_at
            /\ context_calls' =
                   context_calls + (IF q2.pc = "await_context" THEN 1 ELSE 0)
    /\ UNCHANGED <<now, profile_calls>>
    /\ UNCHANGED besidesPredictor

\* client.get_twitter_profile answers: the rest of _get_profile_features,
\* then predict up to its next suspension
ProfileReturns(r) ==
    /\ req[r].pc = "await_profile"
    /\ \E response \in ProfileResponses(req[r].username) :
        LET out == ProfileFromResponse(profile_cache, req[r].username, response)
            kind == IF ~response.success THEN "fail"
                    ELSE IF response.profile = None THEN "noprofile"
                    ELSE IF Len(response.profile[1].tweets) = 0 THEN "empty"
                    ELSE "ok"
            q == [req[r] EXCEPT !.fetched = kind, !.response = Some(response)]
        IN  IF out.raised
            THEN /\ req' = [req EXCEPT ![r] =
                              [q EXCEPT !.pc = "done", !.status = 500]]
                 /\ UNCHANGED <<profile_cache, cached_at, context_calls>>
            ELSE LET q2 == AfterProfile(q, out.features)
                 IN  /\ req' = [req EXCEPT ![r] = q2]
                     /\ profile_cache' = out.cache
                     /\ cached_at' = IF out.stored
                                     THEN [cached_at EXCEPT ![req[r].username] = now]
                                     ELSE cached_at
                     /\ context_calls' =
                            context_calls + (IF q2.pc = "await_context" THEN 1 ELSE 0)
    /\ UNCHANGED <<now, profile_calls>>
    /\ UNCHANGED besidesPredictor

\* client.get_post_context answers: the rest of _analyze_context and predict
ContextReturns(r) ==
    /\ req[r].pc = "await_context"
    /\ \E target \in TargetResponses(now) :
        LET q == req[r]
        IN  req' = [req EXCEPT ![r] =
                  [q EXCEPT !.pc = "done", !.status = 200, !.target = target,
                            !.context_at = now,
                            !.result = Some(PredictResult(q.post_features,
                                q.profile_features[1],
                                analyze_context(target, now)))]]
    /\ UNCHANGED <<profile_cache, now, profile_calls, context_calls, cached_at>>
    /\ UNCHANGED besidesPredictor

\* time passes
Tick ==
    /\ now + TickMinutes <= MaxTicks * TickMinutes
    /\ now' = now + TickMinutes
    /\ UNCHANGED <<profile_cache, req, profile_calls, context_calls, cached_at>>
    /\ UNCHANGED besidesPredictor

NextPredictor ==
    \/ \E r \in ReqIds : Predict(r)
    \/ \E r \in ReqIds : ProfileReturns(r)
    \/ \E r \in ReqIds : ContextReturns(r)
    \/ Tick

\* ------------------------------------------- the profile page (page.tsx)
FetchIds == 1..MaxFetches
\* the handles whose profile page is opened
PageHandles == {"alice"}
\* the ProfileAnalysis the backend computes from version v of a handle's data
ProfileAnalysis(username, v) == [username |-> username, version |-> v]
\* JSON.stringify / JSON.parse of a ProfileAnalysis
JSONstringify(value) == <<"json", value.username, value.version>>
JSONparses(text) == Len(text) = 3 /\ text[1] = "json"
JSONparse(text) == [username |-> text[2], version |-> text[3]]

Unmounted ==
    [mounted |-> FALSE, username |-> "", analysis |-> None, error |-> None,
     loading |-> TRUE]
FreeFetch ==
    [state |-> "free", username |-> "", refresh |-> FALSE, live |-> FALSE,
     value |-> None]

InitPage ==
    /\ page = Unmounted
    /\ sessionStorage = [h \in Handles |-> None]
    /\ fetches = [f \in FetchIds |-> FreeFetch]
    /\ backend_version = 0
    /\ backend_cache = [h \in Handles |-> None]
    /\ last_refresh = [h \in Handles |-> None]

\* fetchAnalysis(useCache) on page pg: the page and the fetches after the
\* synchronous part, up to `await api.analyzeProfile(username, !useCache)`
fetchAnalysis(pg, storage, fs, useCache) ==
    LET cached == storage[pg.username]
    IN  IF useCache /\ cached # None /\ JSONparses(cached[1])
        THEN [page |-> [pg EXCEPT !.analysis = Some(JSONparse(cached[1])),
                                  !.loading = FALSE],
              fetches |-> fs, issued |-> FALSE]
        ELSE LET f == CHOOSE x \in FetchIds : fs[x].state = "free"
             IN  [page |-> [pg EXCEPT !.loading = TRUE, !.error = None],
                  fetches |-> [fs EXCEPT ![f] =
                      [state |-> "sent", username |-> pg.username,
                       refresh |-> ~useCache, live |-> TRUE, value |-> None]],
                  issued |-> TRUE]

\* the page is opened for a handle: useEffect runs fetchAnalysis(true)
Mount(username) ==
    /\ ~page.mounted
    /\ \E f \in FetchIds : fetches[f].state = "free"
    /\ LET out == fetchAnalysis([Unmounted EXCEPT !.mounted = TRUE,
                                                  !.username = username],
                                sessionStorage, fetches, TRUE)
       IN  /\ page' = out.page
           /\ fetches' = out.fetches
    /\ UNCHANGED <<sessionStorage, backend_version, backend_cache, last_refresh>>
    /\ UNCHANGED besidesPage

\* the refresh button (rendered with the analysis, disabled while loading)
handleRefresh ==
    /\ page.mounted /\ ~page.loading /\ page.error = None
    /\ page.analysis # None
    /\ \E f \in FetchIds : fetches[f].state = "free"
    /\ LET out == fetchAnalysis(page, sessionStorage, fetches, FALSE)
       IN  /\ page' = out.page
           /\ fetches' = out.fetches
    /\ UNCHANGED <<sessionStorage, backend_version, backend_cache, last_refresh>>
    /\ UNCHANGED besidesPage

\* the backend answers GET /profile/{username}/analyze[?refresh=true]: with
\* refresh it analyses the latest data, otherwise it may serve its own cache;
\* or the request fails
BackendAnswers(f) ==
    /\ fetches[f].state = "sent"
    /\ LET u == fetches[f].username
           v == IF ~fetches[f].refresh /\ backend_cache[u] # None
                THEN backend_cache[u][1] ELSE backend_version
       IN  \/ /\ fetches' = [fetches EXCEPT ![f].state = "answered",
                                 ![f].value = Some(ProfileAnalysis(u, v))]
              /\ backend_cache' = [backend_cache EXCEPT ![u] = Some(v)]
           \/ /\ fetches' = [fetches EXCEPT ![f].state = "failed"]
              /\ UNCHANGED backend_cache
    /\ UNCHANGED <<page, sessionStorage, backend_version, last_refresh>>
    /\ UNCHANGED besidesPage

\* `await api.analyzeProfile` resumes: the rest of fetchAnalysis.  State
\* setters of a page that was left have no effect; sessionStorage.setItem has
FetchReturns(f) ==
    /\ fetches[f].state \in {"answered", "failed"}
    /\ LET u == fetches[f].username
           ok == fetches[f].state = "answered"
       IN  /\ page' = IF ~fetches[f].live THEN page
                      ELSE IF ok
                      THEN [page EXCEPT !.analysis = fetches[f].value,
                                        !.loading = FALSE]
                      ELSE [page EXCEPT !.error = Some("Failed to analyze profile"),
                                        !.loading = FALSE]
           /\ sessionStorage' =
                  IF ok THEN [sessionStorage EXCEPT
                                 ![u] = Some(JSONstringify(fetches[f].value[1]))]
                  ELSE sessionStorage
           /\ last_refresh' =
                  IF ok /\ fetches[f].refresh
                  THEN [last_refresh EXCEPT ![u] = fetches[f].value]
                  ELSE last_refresh
    /\ fetches' = [fetches EXCEPT ![f] = FreeFetch]
    /\ UNCHANGED <<backend_version, backend_cache>>
    /\ UNCHANGED besidesPage

\* the user leaves the page; its pending fetches are not aborted
Leave ==
    /\ page.mounted
    /\ page' = Unmounted
    /\ fetches' = [f \in FetchIds |-> [fetches[f] EXCEPT !.live = FALSE]]
    /\ UNCHANGED <<sessionStorage, backend_version, backend_cache, last_refresh>>
    /\ UNCHANGED besidesPage

\* the handle posts again: the backend's upstream data changes
DataChanges ==
    /\ backend_version < MaxVersion
    /\ backend_version' = backend_version + 1
    /\ UNCHANGED <<page, sessionStorage, fetches, backend_cache, last_refresh>>
    /\ UNCHANGED besidesPage

NextPage ==
    \/ \E username \in PageHandles : Mount(username)
    \/ handleRefresh
    \/ \E f \in FetchIds : BackendAnswers(f)
    \/ \E f \in FetchIds : FetchReturns(f)
    \/ Leave
    \/ DataChanges

\* ------------------------------------------- the post editor (PostEditor)
\* bounds on the calls the editor has in flight at once
MaxTargetFetches == 1
MaxPersonalizedFetches == 1
TargetFetchIds == 1..MaxTargetFetches
PersonalizedFetchIds == 1..MaxPersonalizedFetches

PostTypes == {"original", "reply", "quote"}
UrlA == "https://x.com/alice/status/1"
UrlB == "https://x.com/bob/status/2"
\* what the user may have in the target URL input
TargetUrlInputs == {"", "x.com/alice", UrlA, UrlB}
\* targetUrl.match(/^https?:\/\/(x\.com|twitter\.com)\/\w+\/status\/\d+/)
MatchesStatusUrl(url) == url \in {UrlA, UrlB}
\* the personas api.getPersonas loaded
Personas == {"expert"}
\* the `username` prop of the component
EditorUser == "alice"

\* detectLanguage, on a text given as the scripts its characters belong to
detectLanguage(text) ==
    IF "hangul" \in text THEN "ko"
    ELSE IF "kana" \in text THEN "ja"
    ELSE IF "han" \in text THEN "zh"
    ELSE "en"

\* the TargetPostContext the backend returns for a status URL
TargetPostContext(url) ==
    [url |-> url,
     author |-> IF url = UrlA THEN "alice" ELSE "bob",
     text |-> IF url = UrlA THEN {"latin", "hangul"} ELSE {"latin"}]

\* a text: what it was written as and the rewrites applied to it since
Text(base) == [base |-> base, polished |-> <<>>]

\* the PersonalizedPostResponse generated for a request
PersonalizedPostResponse(request) ==
    [for |-> request, generated_content |-> Text("personalized")]

\* the useState initial values
InitialEditor ==
    [content |-> "", postType |-> "original", targetUrl |-> "",
     analysis |-> None, loading |-> FALSE,
     selectedTips |-> <<>>, suggestion |-> None, applyingTips |-> FALSE,
     detectedLanguage |-> "en", suggestionLanguage |-> "en",
     targetLanguage |-> "en", targetPostContext |-> None,
     fetchingTarget |-> FALSE, targetFetchError |-> None,
     personalizedPost |-> None, fetchingPersonalized |-> FALSE,
     selectedPersona |-> None, improvedScores |-> None]
FreeTargetFetch == [state |-> "free", url |-> "", superseded |-> FALSE]
FreePersonalizedFetch == [state |-> "free", request |-> None, superseded |-> FALSE]

InitEditor ==
    /\ editor = InitialEditor
    /\ debounce = None
    /\ analyze_timer = None
    /\ target_fetches = [f \in TargetFetchIds |-> FreeTargetFetch]
    /\ personalized_fetches = [g \in PersonalizedFetchIds |-> FreePersonalizedFetch]

\* dependency lists of the effects: did they change between two renders
PostTypeChanged(prev, cur) == prev.postType # cur.postType
TargetDepsChanged(prev, cur) ==
    prev.targetUrl # cur.targetUrl \/ prev.postType # cur.postType
\* `fresh`: targetPostContext was set to a newly received object
PersonalizedDepsChanged(prev, cur, fresh) ==
    \/ fresh
    \/ prev.targetPostContext # cur.targetPostContext
    \/ prev.postType # cur.postType
    \/ prev.targetLanguage # cur.targetLanguage
    \/ prev.selectedPersona # cur.selectedPersona

\* the target-URL effect returns before it arms the debounce timer
TargetEarlyReturn(cur) ==
    \/ cur.postType = "original" \/ cur.targetUrl = ""
    \/ ~MatchesStatusUrl(cur.targetUrl)
\* the personalized-post effect clears the post instead of fetching
PersonalizedSkips(cur) ==
    cur.targetPostContext = None \/ cur.postType = "original"

Supersede(fs) == [f \in DOMAIN fs |->
    IF fs[f].state = "sent" THEN [fs[f] EXCEPT !.superseded = TRUE] ELSE fs[f]]

\* the effects of one render (state cur, previous render prev).  All effects
\* read the render's state; their setState calls apply in order afterwards.
RunEffects(prev, cur, fresh, acc) ==
    LET e1 == IF PostTypeChanged(prev, cur)
              THEN [cur EXCEPT !.analysis = None, !.selectedTips = <<>>,
                               !.suggestion = None, !.targetPostContext = None,
                               !.targetFetchError = None,
                               !.selectedPersona = None,
                               !.improvedScores = None]
              ELSE cur
        retarget == TargetDepsChanged(prev, cur)
        e2 == IF retarget /\ TargetEarlyReturn(cur)
              THEN [e1 EXCEPT !.targetPostContext = None,
                              !.targetFetchError = None]
              ELSE e1
        repersonalize == PersonalizedDepsChanged(prev, cur, fresh)
        calls == repersonalize /\ ~PersonalizedSkips(cur) /\ EditorUser # ""
        e3 == IF ~repersonalize THEN e2
              ELSE IF PersonalizedSkips(cur)
              THEN [e2 EXCEPT !.personalizedPost = None]
              ELSE IF calls THEN [e2 EXCEPT !.fetchingPersonalized = TRUE]
              ELSE e2
        pf1 == IF repersonalize THEN Supersede(acc.pf) ELSE acc.pf
        free == {g \in PersonalizedFetchIds : pf1[g].state = "free"}
        request == [target_post_content |-> cur.targetPostContext[1].url,
                    target_author |-> cur.targetPostContext[1].author,
                    post_type |-> cur.postType,
                    language |-> cur.targetLanguage,
                    persona |-> cur.selectedPersona]
    IN  [editor |-> e3,
         \* the cleanup clears the timer; the body arms a new one
         debounce |-> IF ~retarget THEN acc.debounce
                      ELSE IF TargetEarlyReturn(cur) THEN None
                      ELSE Some(cur.targetUrl),
         tf |-> IF retarget THEN Supersede(acc.tf) ELSE acc.tf,
         pf |-> IF calls /\ free # {}
                THEN [pf1 EXCEPT ![CHOOSE g \in free : TRUE] =
                         [state |-> "sent", request |-> Some(request),
                          superseded |-> FALSE]]
                ELSE pf1,
         overflow |-> acc.overflow \/ (calls /\ free = {})]

\* renders and effects until no effect sets state any more
RECURSIVE Settle(_, _, _, _)
Settle(prev, cur, fresh, acc) ==
    LET out == RunEffects(prev, cur, fresh, acc)
    IN  IF out.editor = cur THEN out
        ELSE Settle(cur, out.editor, FALSE,
                    [debounce |-> out.debounce, tf |-> out.tf, pf |-> out.pf,
                     overflow |-> out.overflow])

\* the auto-analyze effect (the revision of PostEditor.tsx): its dependency
\* list [content, analyzePost, postType], analyzePost being rebuilt when
\* postType, targetUrl or targetLanguage change
AutoAnalyzeDepsChanged(prev, cur) ==
    \/ prev.content # cur.content \/ prev.postType # cur.postType
    \/ prev.targetUrl # cur.targetUrl
    \/ prev.targetLanguage # cur.targetLanguage
\* what analyzePost(content) of the render with state e will send
AnalyzeClosure(e) ==
    [text |-> e.content, post_type |-> e.postType,
     target_post_url |-> e.targetUrl, target_language |-> e.targetLanguage]
\* the effect without its test of the post type: a timer in every mode
AutoAnalyzeTimer_EveryMode(prev, cur) ==
    IF ~auto_analyze \/ ~AutoAnalyzeDepsChanged(prev, cur) THEN analyze_timer
    ELSE Some(AnalyzeClosure(cur))

\* the timer after the renders from state prev to state cur: the cleanup
\* clears it, the body arms it in original mode only
AutoAnalyzeTimer(prev, cur) ==
    IF ~auto_analyze \/ ~AutoAnalyzeDepsChanged(prev, cur) THEN analyze_timer
    ELSE IF cur.postType # "original" THEN None
    ELSE Some(AnalyzeClosure(cur))

\* a state update of the component followed by the effects it triggers
Commit(next, fresh, tf, pf) ==
    LET out == Settle(editor, next, fresh,
                      [debounce |-> debounce, tf |-> tf, pf |-> pf,
                       overflow |-> FALSE])
    IN  /\ ~out.overflow
        /\ editor' = out.editor
        /\ debounce' = out.debounce
        /\ analyze_timer' = AutoAnalyzeTimer(editor, out.editor)
        /\ target_fetches' = out.tf
        /\ personalized_fetches' = out.pf

\* a post type button: onClick={() => setPostType(type)}
setPostType(type) ==
    /\ type # editor.postType
    /\ Commit([editor EXCEPT !.postType = type], FALSE,
              target_fetches, personalized_fetches)
    /\ UNCHANGED besidesEditor

\* the target URL input (rendered for reply and quote)
setTargetUrl(url) ==
    /\ editor.postType # "original"
    /\ url # editor.targetUrl
    /\ Commit([editor EXCEPT !.targetUrl = url], FALSE,
              target_fetches, personalized_fetches)
    /\ UNCHANGED besidesEditor

\* a persona button (rendered with the suggestions row, disabled while the
\* personalized post is being fetched); no suggestion is shown, so
\* handleSuggestionPersona is not called
setSelectedPersona(persona) ==
    /\ editor.postType # "original"
    /\ editor.personalizedPost # None \/ editor.targetPostContext # None
    /\ ~editor.fetchingPersonalized
    /\ editor.suggestion = None
    /\ Commit([editor EXCEPT !.selectedPersona =
                  IF @ = Some(persona) THEN None ELSE Some(persona)], FALSE,
              target_fetches, personalized_fetches)
    /\ UNCHANGED besidesEditor

\* the reset button
handleReset ==
    /\ Commit([editor EXCEPT
                  !.content = "", !.postType = "original", !.targetUrl = "",
                  !.analysis = None, !.selectedTips = <<>>,
                  !.suggestion = None, !.detectedLanguage = "en",
                  !.suggestionLanguage = "en", !.targetLanguage = "en",
                  !.targetPostContext = None, !.targetFetchError = None,
                  !.personalizedPost = None, !.selectedPersona = None,
                  !.improvedScores = None], FALSE,
              target_fetches, personalized_fetches)
    /\ editor' # editor
    /\ UNCHANGED besidesEditor

\* the 400 ms timer fires: the callback up to `await api.getPostContext`
DebounceFires ==
    /\ debounce # None
    /\ \E f \in TargetFetchIds :
        /\ target_fetches[f].state = "free"
        /\ \A f2 \in TargetFetchIds : f2 < f => target_fetches[f2].state # "free"
        /\ target_fetches' = [target_fetches EXCEPT ![f] =
               [state |-> "sent", url |-> debounce[1], superseded |-> FALSE]]
    /\ editor' = [editor EXCEPT !.fetchingTarget = TRUE,
                                !.targetFetchError = None]
    /\ debounce' = None
    /\ UNCHANGED <<personalized_fetches, analyze_timer>>
    /\ UNCHANGED besidesEditor

NotFoundMessage ==
    "Post not found in recent 200 posts. Try a more recent post from this account."
FetchFailedMessage ==
    "Could not fetch target post. Please select language manually."

\* `await api.getPostContext(targetUrl)` resumes: the rest of the callback
TargetFetchReturns(f) ==
    /\ target_fetches[f].state = "sent"
    /\ LET url == target_fetches[f].url
           tf == [target_fetches EXCEPT ![f] = FreeTargetFetch]
       IN  \/ LET context == TargetPostContext(url)
              IN  Commit([editor EXCEPT
                             !.targetPostContext = Some(context),
                             !.targetLanguage = detectLanguage(context.text),
                             !.fetchingTarget = FALSE],
                         TRUE, tf, personalized_fetches)
           \/ \E message \in {NotFoundMessage, FetchFailedMessage} :
                  Commit([editor EXCEPT
                             !.targetPostContext = None,
                             !.targetFetchError = Some(message),
                             !.fetchingTarget = FALSE],
                         FALSE, tf, personalized_fetches)
    /\ UNCHANGED besidesEditor

\* `await api.generatePersonalizedPost(...)` resumes: the rest of
\* fetchPersonalized
PersonalizedFetchReturns(g) ==
    /\ personalized_fetches[g].state = "sent"
    /\ LET request == personalized_fetches[g].request[1]
           pf == [personalized_fetches EXCEPT ![g] = FreePersonalizedFetch]
       IN  \/ Commit([editor EXCEPT
                         !.personalizedPost =
                             Some(PersonalizedPostResponse(request)),
                         !.fetchingPersonalized = FALSE],
                     FALSE, target_fetches, pf)
           \/ Commit([editor EXCEPT !.personalizedPost = None,
                                    !.fetchingPersonalized = FALSE],
                     FALSE, target_fetches, pf)
    /\ UNCHANGED besidesEditor

NextEditor ==
    \/ \E type \in PostTypes : setPostType(type)
    \/ \E url \in TargetUrlInputs : setTargetUrl(url)
    \/ \E persona \in Personas : setSelectedPersona(persona)
    \/ handleReset
    \/ DebounceFires
    \/ \E f \in TargetFetchIds : TargetFetchReturns(f)
    \/ \E g \in PersonalizedFetchIds : PersonalizedFetchReturns(g)

\* ------------------------- polishing (PostEditor and PolishButtons)
\* api.polishPost calls followed in one run
MaxPolishCalls == 3
PolishCallIds == 1..MaxPolishCalls
\* the polish types the user picks from: one rewrite, one translation
PolishTypeInputs == {"grammar", "translate_ko"}

\* the PolishResponse of the backend to a PolishRequest
PolishResponse(request) ==
    [polished_content |->
        [request.content EXCEPT !.polished = Append(@, request.polish_type)]]

\* the ApplyTipsResponse handleApplyTips stored as `suggestion`
ApplyTipsResponse ==
    [original_content |-> Text("draft"), suggested_content |-> Text("suggested"),
     applied_tips |-> <<"add_emoji">>]

\* the editor once suggestions are shown: after handleApplyTips
\* (withSuggestion) and, for a reply, after the target post was fetched and
\* the personalized post generated (withPersonalized)
ShownEditor(postType, withSuggestion, withPersonalized) ==
    LET context == TargetPostContext(UrlA)
        reply == postType # "original"
        language == IF reply THEN detectLanguage(context.text) ELSE "en"
        request == [target_post_content |-> context.url,
                    target_author |-> context.author, post_type |-> postType,
                    language |-> language, persona |-> None]
    IN  [InitialEditor EXCEPT
            !.content = "draft", !.postType = postType,
            !.targetUrl = IF reply THEN UrlA ELSE "",
            !.targetPostContext = IF reply THEN Some(context) ELSE None,
            !.targetLanguage = language,
            !.analysis = IF withSuggestion
                         THEN Some([context |-> IF reply
                                       THEN Some([target_post_content |-> context.text])
                                       ELSE None])
                         ELSE None,
            !.selectedTips = IF withSuggestion THEN <<"add_emoji">> ELSE <<>>,
            !.suggestion = IF withSuggestion THEN Some(ApplyTipsResponse) ELSE None,
            !.personalizedPost = IF withPersonalized
                                 THEN Some(PersonalizedPostResponse(request))
                                 ELSE None]

FreePolishCall == [state |-> "free", panel |-> "", request |-> None, closure |-> None]
UnmountedButtons == [content |-> Text(""), polishing |-> None]

PolishIdle ==
    /\ polishing = None
    /\ polish_calls = [p \in PolishCallIds |-> FreePolishCall]
    /\ polish_buttons = UnmountedButtons

InitPolish ==
    /\ \E postType \in {"original", "reply"}, withSuggestion \in BOOLEAN,
          withPersonalized \in BOOLEAN :
        /\ withPersonalized => postType = "reply"
        /\ editor = ShownEditor(postType, withSuggestion, withPersonalized)
    /\ debounce = None
    /\ analyze_timer = None
    /\ target_fetches = [f \in TargetFetchIds |-> FreeTargetFetch]
    /\ personalized_fetches = [g \in PersonalizedFetchIds |-> FreePersonalizedFetch]
    /\ polishing = None
    /\ polish_calls = [p \in PolishCallIds |-> FreePolishCall]
    /\ \E base \in {"", "draft"} :
        polish_buttons = [content |-> Text(base), polishing |-> None]

\* `await api.polishPost(request)` starts: the call takes the next free slot
SendPolish(calls, panel, request, closure) ==
    LET free == {p \in PolishCallIds : calls[p].state = "free"}
        p == CHOOSE q \in free : \A q2 \in free : q <= q2
    IN  [calls EXCEPT ![p] = [state |-> "sent", panel |-> panel,
                              request |-> Some(request), closure |-> closure]]
FreePolishCalls(calls) ==
    Cardinality({p \in PolishCallIds : calls[p].state = "free"})

\* the request handlePolishSuggestion sends for the render's state e
SuggestionPolishRequest(e, type) ==
    [content |-> e.suggestion[1].suggested_content, polish_type |-> type,
     language |-> e.suggestionLanguage,
     target_post_content |->
         IF e.analysis # None /\ e.analysis[1].context # None
         THEN Some(e.analysis[1].context[1].target_post_content) ELSE None]
\* the request handlePolishPersonalized sends for the render's state e
PersonalizedPolishRequest(e, type) ==
    [content |-> e.personalizedPost[1].generated_content, polish_type |-> type,
     language |-> e.targetLanguage,
     target_post_content |->
         IF e.targetPostContext # None
         THEN Some(e.targetPostContext[1].text) ELSE None]

\* a polish or translate entry of the suggestion's menu, up to the await
handlePolishSuggestion(type) ==
    /\ editor.suggestion # None /\ polishing = None
    /\ FreePolishCalls(polish_calls) >= 1
    /\ polishing' = Some(type)
    /\ polish_calls' = SendPolish(polish_calls, "suggestion",
                           SuggestionPolishRequest(editor, type), editor.suggestion)
    /\ UNCHANGED <<editor, debounce, target_fetches, personalized_fetches, analyze_timer,
                   polish_buttons>>
    /\ UNCHANGED besidesPolish

\* a button of the unified polish row, up to the awaits: both handlers run
\* in the same render, so both read the same `polishing`
handlePolishAll(type) ==
    /\ polishing = None
    /\ editor.suggestion # None \/ editor.personalizedPost # None
    /\ LET both == editor.suggestion # None /\ editor.personalizedPost # None
           c1 == IF editor.suggestion # None
                 THEN SendPolish(polish_calls, "suggestion",
                          SuggestionPolishRequest(editor, type), editor.suggestion)
                 ELSE polish_calls
       IN  /\ FreePolishCalls(polish_calls) >= (IF both THEN 2 ELSE 1)
           /\ polish_calls' =
                  IF editor.personalizedPost # None
                  THEN SendPolish(c1, "personalized",
                           PersonalizedPolishRequest(editor, type),
                           editor.personalizedPost)
                  ELSE c1
    /\ polishing' = Some(type)
    /\ UNCHANGED <<editor, debounce, target_fetches, personalized_fetches, analyze_timer,
                   polish_buttons>>
    /\ UNCHANGED besidesPolish

\* a button of PolishButtons, up to the await
handlePolish(type) ==
    /\ polish_buttons.content # Text("") /\ polish_buttons.polishing = None
    /\ FreePolishCalls(polish_calls) >= 1
    /\ polish_buttons' = [polish_buttons EXCEPT !.polishing = Some(type)]
    /\ polish_calls' = SendPolish(polish_calls, "buttons",
                           [content |-> polish_buttons.content,
                            polish_type |-> type], None)
    /\ UNCHANGED <<editor, debounce, target_fetches, personalized_fetches, analyze_timer,
                   polishing>>
    /\ UNCHANGED besidesPolish

\* the statements after a successful `await api.polishPost`
Polished(s, call) ==
    LET type == call.request[1].polish_type
        result == PolishResponse(call.request[1])
    IN  IF call.panel = "suggestion"
        THEN [s EXCEPT
                !.editor.suggestion =
                    Some([call.closure[1] EXCEPT
                             !.suggested_content = result.polished_content]),
                !.editor.suggestionLanguage =
                    IF type = "translate_en" THEN "en"
                    ELSE IF type = "translate_ko" THEN "ko"
                    ELSE IF type = "translate_zh" THEN "zh"
                    ELSE @]
        ELSE IF call.panel = "personalized"
        THEN [s EXCEPT
                !.editor.personalizedPost =
                    Some([call.closure[1] EXCEPT
                             !.generated_content = result.polished_content])]
        \* onPolished(result.polished_content): the caller takes the text
        ELSE [s EXCEPT !.buttons.content = result.polished_content]

AfterPolish_WritesOnFailure(s, call, ok) == Polished(s, call)

\* try / catch of the three handlers: the catch block only logs
AfterPolish(s, call, ok) == IF ok THEN Polished(s, call) ELSE s

\* `await api.polishPost` resumes (ok) or throws (~ok), then `finally`
PolishReturns(p, ok) ==
    /\ polish_calls[p].state = "sent"
    /\ LET call == polish_calls[p]
           out == AfterPolish([editor |-> editor, buttons |-> polish_buttons],
                              call, ok)
       IN  /\ editor' = out.editor
           /\ IF call.panel = "buttons"
              THEN /\ polish_buttons' = [out.buttons EXCEPT !.polishing = None]
                   /\ UNCHANGED polishing
              ELSE /\ polish_buttons' = out.buttons
                   /\ polishing' = None
    /\ polish_calls' = [polish_calls EXCEPT
                            ![p].state = IF ok THEN "done" ELSE "failed"]
    /\ UNCHANGED <<debounce, target_fetches, personalized_fetches, analyze_timer>>
    /\ UNCHANGED besidesPolish

NextPolish ==
    \/ \E type \in PolishTypeInputs : handlePolishSuggestion(type)
    \/ \E type \in PolishTypeInputs : handlePolishAll(type)
    \/ \E type \in PolishTypeInputs : handlePolish(type)
    \/ \E p \in PolishCallIds, ok \in BOOLEAN : PolishReturns(p, ok)

\* ------------------------------- analysis and quick tips (PostEditor)
\* api.analyzePost and api.applyTips calls followed in one run
MaxAnalyzeCalls == 2
MaxApplyCalls == 1
AnalyzeCallIds == 1..MaxAnalyzeCalls
ApplyCallIds == 1..MaxApplyCalls
\* how many of the tips of the row the user toggles
MaxTipChoices == 4

\* the drafts typed into the textarea: a short plain sentence, and (named,
\* not spelled out) a draft of 120 characters with a question, a call to
\* action, an emoji and one hashtag; both are written in Latin script
ShortDraft == "Great point! I agree."
RichDraft == "rich draft"
DraftScripts(text) == {"latin"}
ContentInputs == {"", ShortDraft, RichDraft}
\* what extract_post_features finds in a draft (no media is attached)
DraftFeatures(text, post_type) ==
    IF text = RichDraft
    THEN PostFeatures(120, TRUE, TRUE, TRUE, "none", 1, post_type = "quote")
    ELSE PostFeatures(21, FALSE, FALSE, FALSE, "none", 0, post_type = "quote")
\* the profile features the backend holds for the editor's user: an account
\* whose posts average an engagement rate of 0.8
EditorProfile == ProfileWithRate(Prob(8000))
\* the post types chosen while tips are selected and applied
ApplyPostTypes == {"original", "reply"}

\* PentagonScores.to_dict: round(score, 1), ties to even
Round1(x) ==
    LET unit == Scale \div 10
        q == x \div unit
        r == x % unit
    IN  IF 2 * r > unit \/ (2 * r = unit /\ q % 2 = 1) THEN (q + 1) * unit
        ELSE q * unit

\* POST /analyze: the PostAnalysis returned for a request (no target URL is
\* given in these runs).  `call` is a history field: the call answered.
AnalysisResponse(request, call) ==
    LET result == PredictResult(
                      DraftFeatures(request.content, request.post_type),
                      EditorProfile,
                      [context |-> None, context_boost |-> None])
    IN  [scores |-> [d \in Dimensions |-> Round1(result.scores[d])],
         quick_tips |-> result.quick_tips, context |-> None,
         request |-> request, call |-> call]

\* predicted_improvement values, as their characters
Digits == <<"0", "1", "2", "3", "4", "5", "6", "7", "8", "9">>
IsDigit(c) == \E d \in 1..10 : Digits[d] = c
DigitValue(c) == (CHOOSE d \in 1..10 : Digits[d] = c) - 1
\* value.match(/([+-]?\d+)/): where the leftmost match starts, 0 if none
MatchStart(value) ==
    LET starts == {i \in 1..Len(value) :
                      \/ IsDigit(value[i])
                      \/ /\ value[i] \in {"+", "-"} /\ i < Len(value)
                         /\ IsDigit(value[i + 1])}
    IN  IF starts = {} THEN 0 ELSE CHOOSE i \in starts : \A j \in starts : i <= j
\* the digits matched from position i on, read in base 10
RECURSIVE DigitRun(_, _, _)
DigitRun(value, i, acc) ==
    IF i > Len(value) \/ ~IsDigit(value[i]) THEN acc
    ELSE DigitRun(value, i + 1, 10 * acc + DigitValue(value[i]))
\* parseInt(match[1], 10), None when the value does not match
ParseImprovement(value) ==
    LET i == MatchStart(value)
    IN  IF i = 0 THEN None
        ELSE IF value[i] = "-" THEN Some(0 - DigitRun(value, i + 1, 0))
        ELSE IF value[i] = "+" THEN Some(DigitRun(value, i + 1, 0))
        ELSE Some(DigitRun(value, i, 0))
\* the predicted_improvement maps the server answers with
ImprovementInputs ==
    {[engagement |-> <<"+", "2", "0", "%">>, reach |-> <<"-", "9", "0", "%">>,
      clarity |-> <<"+", "1", "0", "%">>],
     [virality |-> <<"+", "9", "0", "%">>, quality |-> <<"n", "/", "a">>]}

\* handleApplyTips: newScores, from analysis.scores and predicted_improvement
ImprovedScores(analysed, predicted_improvement) ==
    [key \in DOMAIN analysed |->
        IF key \in DOMAIN predicted_improvement
              /\ ParseImprovement(predicted_improvement[key]) # None
        THEN Min2(100 * Scale,
                  Max2(0, analysed[key]
                          + ParseImprovement(predicted_improvement[key])[1] * Scale))
        ELSE analysed[key]]

\* the tip ids _generate_quick_tips gives out
TipIds ==
    {"add_emoji", "add_question", "add_image", "add_content", "shorten",
     "add_hashtags", "trim_hashtags"}

\* handleTipToggle appending whenever the tip is not selected
ToggleTip_NoCap(prev, tipId) ==
    IF \E i \in 1..Len(prev) : prev[i] = tipId
    THEN SelectSeq(prev, LAMBDA id : id # tipId)
    ELSE Append(prev, tipId)

\* the updater handleTipToggle passes to setSelectedTips
ToggleTip(prev, tipId) ==
    IF \E i \in 1..Len(prev) : prev[i] = tipId
    THEN SelectSeq(prev, LAMBDA id : id # tipId)
    ELSE IF Len(prev) >= 3 THEN prev
    ELSE Append(prev, tipId)

FreeAnalyzeCall == [state |-> "free", request |-> None, auto |-> FALSE]
FreeApplyCall == [state |-> "free", closure |-> None]

AnalysisIdle ==
    /\ auto_analyze = FALSE
    /\ analyze_calls = [a \in AnalyzeCallIds |-> FreeAnalyzeCall]
    /\ apply_calls = [b \in ApplyCallIds |-> FreeApplyCall]

\* the component is mounted in one of its two revisions: PostEditor.tsx, with
\* the auto-analyze effect (TRUE), or part_002, where only the Analyze button
\* analyses and handleApplyTips computes the improved scores (FALSE)
InitAnalysis ==
    /\ auto_analyze \in BOOLEAN
    /\ analyze_calls = [a \in AnalyzeCallIds |-> FreeAnalyzeCall]
    /\ apply_calls = [b \in ApplyCallIds |-> FreeApplyCall]

\* the textarea: onChange={(e) => setContent(e.target.value)}
setContent(text) ==
    /\ text # editor.content
    /\ Commit([editor EXCEPT !.content = text], FALSE,
              target_fetches, personalized_fetches)
    /\ UNCHANGED besidesEditor

\* analyzePost(text) of the render with closure c, up to
\* `await api.analyzePost`; `auto` tells that the timer called it
analyzePost(c, auto) ==
    IF c.text = ""
    THEN /\ editor' = [editor EXCEPT !.analysis = None]
         /\ UNCHANGED analyze_calls
    ELSE \E a \in AnalyzeCallIds :
            /\ analyze_calls[a].state = "free"
            /\ \A a2 \in AnalyzeCallIds : a2 < a => analyze_calls[a2].state # "free"
            /\ analyze_calls' = [analyze_calls EXCEPT ![a] =
                   [state |-> "sent", auto |-> auto,
                    request |-> Some([username |-> EditorUser,
                                      content |-> c.text,
                                      post_type |-> c.post_type,
                                      target_post_url |-> c.target_post_url,
                                      target_language |-> c.target_language])]]
            /\ editor' = [editor EXCEPT !.loading = TRUE]

\* the Analyze button: onClick={() => analyzePost(content)}
AnalyzeClick ==
    /\ editor.content # "" /\ ~editor.loading
    /\ analyzePost(AnalyzeClosure(editor), FALSE)
    /\ UNCHANGED <<debounce, target_fetches, personalized_fetches, analyze_timer>>
    /\ UNCHANGED <<auto_analyze, apply_calls>>
    /\ UNCHANGED besidesAnalysis

\* the auto-analyze timer fires: analyzePost(content) of the render that
\* armed it
AnalyzeTimerFires ==
    /\ analyze_timer # None
    /\ analyzePost(analyze_timer[1], TRUE)
    /\ analyze_timer' = None
    /\ UNCHANGED <<debounce, target_fetches, personalized_fetches>>
    /\ UNCHANGED <<auto_analyze, apply_calls>>
    /\ UNCHANGED besidesAnalysis

\* analyzePost installing the result without resetting the suggestion
InstallAnalysis_KeepsSuggestion(e, request, result) ==
    [e EXCEPT !.analysis = Some(result), !.selectedTips = <<>>,
              !.improvedScores = None, !.loading = FALSE]

\* the state updates of analyzePost after a successful await, `finally`
\* included; no target post content comes with the results of these runs
InstallAnalysis(e, request, result) ==
    [e EXCEPT !.analysis = Some(result),
              !.selectedTips = <<>>, !.suggestion = None,
              !.improvedScores = None,
              !.detectedLanguage =
                  IF request.post_type # "original"
                  THEN request.target_language
                  ELSE detectLanguage(DraftScripts(request.content)),
              !.loading = FALSE]

\* `await api.analyzePost(...)` resumes: the rest of analyzePost
AnalyzeReturns(a) ==
    /\ analyze_calls[a].state = "sent"
    /\ LET request == analyze_calls[a].request[1]
       IN  \/ /\ editor' = InstallAnalysis(editor, request,
                                            AnalysisResponse(request, a))
              /\ analyze_calls' = [analyze_calls EXCEPT ![a] =
                     [@ EXCEPT !.state = "done", !.request = None]]
           \/ /\ editor' = [editor EXCEPT !.loading = FALSE]
              /\ analyze_calls' = [analyze_calls EXCEPT ![a] =
                     [@ EXCEPT !.state = "failed", !.request = None]]
    /\ UNCHANGED <<debounce, target_fetches, personalized_fetches, analyze_timer>>
    /\ UNCHANGED <<auto_analyze, apply_calls>>
    /\ UNCHANGED besidesAnalysis

\* the quick tips row is rendered
TipsRowShown ==
    /\ editor.analysis # None /\ ~editor.loading
    /\ editor.analysis[1].quick_tips # <<>>
\* the tips of the row the user toggles
TipChoices ==
    LET tips == editor.analysis[1].quick_tips
    IN  {tips[i] : i \in 1..Min2(MaxTipChoices, Len(tips))}

\* a tip's checkbox: onChange={() => handleTipToggle(tip.tip_id)}.  The
\* checkbox of an unselected tip is disabled once three are selected; the
\* handler makes the same test, so calling it then changes nothing.
handleTipToggle(tipId) ==
    /\ TipsRowShown
    /\ tipId \in TipChoices
    /\ editor' = [editor EXCEPT !.selectedTips = ToggleTip(@, tipId)]
    /\ UNCHANGED <<debounce, target_fetches, personalized_fetches, analyze_timer>>
    /\ UNCHANGED analysisVars
    /\ UNCHANGED besidesAnalysis

\* the Apply button: handleApplyTips up to `await api.applyTips`.  The call
\* is kept with what the rest of the handler reads when it resumes: the
\* analysis and the detected language of the render that called it.
handleApplyTips ==
    /\ TipsRowShown
    /\ editor.selectedTips # <<>> /\ ~editor.applyingTips
    /\ \E b \in ApplyCallIds :
        /\ apply_calls[b].state = "free"
        /\ \A b2 \in ApplyCallIds : b2 < b => apply_calls[b2].state # "free"
        /\ apply_calls' = [apply_calls EXCEPT ![b] =
               [state |-> "sent",
                closure |-> Some([analysis |-> editor.analysis[1],
                                  detectedLanguage |-> editor.detectedLanguage])]]
    /\ editor' = [editor EXCEPT !.applyingTips = TRUE]
    /\ UNCHANGED <<debounce, target_fetches, personalized_fetches, analyze_timer>>
    /\ UNCHANGED <<auto_analyze, analyze_calls>>
    /\ UNCHANGED besidesAnalysis

\* POST /apply-tips: the fields of the ApplyTipsResponse the component's
\* logic reads.  `analysed_by` is a history field: the analyze call whose
\* result the Apply button was pressed on.
ApplyTipsResult(predicted_improvement, analysed_by) ==
    [suggested_content |-> Text("suggested"),
     predicted_improvement |-> predicted_improvement,
     analysed_by |-> analysed_by]

\* `await api.applyTips(...)` resumes: the rest of handleApplyTips, with the
\* analysis and the detected language of the render that called it
ApplyReturns(b) ==
    /\ apply_calls[b].state = "sent"
    /\ LET closure == apply_calls[b].closure[1]
       IN  \/ \E improvement \in ImprovementInputs :
                /\ editor' = [editor EXCEPT
                       !.suggestion =
                           Some(ApplyTipsResult(improvement,
                                                closure.analysis.call)),
                       !.suggestionLanguage = closure.detectedLanguage,
                       !.improvedScores =
                           IF auto_analyze THEN @
                           ELSE Some(ImprovedScores(closure.analysis.scores,
                                                    improvement)),
                       !.applyingTips = FALSE]
                /\ apply_calls' = [apply_calls EXCEPT ![b] =
                       [FreeApplyCall EXCEPT !.state = "done"]]
           \/ /\ editor' = [editor EXCEPT !.applyingTips = FALSE]
              /\ apply_calls' = [apply_calls EXCEPT ![b] =
                     [FreeApplyCall EXCEPT !.state = "failed"]]
    /\ UNCHANGED <<debounce, target_fetches, personalized_fetches, analyze_timer>>
    /\ UNCHANGED <<auto_analyze, analyze_calls>>
    /\ UNCHANGED besidesAnalysis

\* writing, choosing the post type and analysing
NextAnalysis ==
    \/ \E text \in ContentInputs : setContent(text)
    \/ \E type \in PostTypes : setPostType(type)
    \/ handleReset
    \/ AnalyzeClick
    \/ AnalyzeTimerFires
    \/ \E a \in AnalyzeCallIds : AnalyzeReturns(a)

\* the editor (revision part_002) once the draft `text` was analysed by the
\* first analyze call; for a reply the target post was fetched before
AnalysedEditor(postType, text) ==
    LET e == [ShownEditor(postType, FALSE, FALSE) EXCEPT !.content = text]
        c == AnalyzeClosure(e)
        request == [username |-> EditorUser, content |-> c.text,
                    post_type |-> c.post_type,
                    target_post_url |-> c.target_post_url,
                    target_language |-> c.target_language]
    IN  [e EXCEPT !.analysis = Some(AnalysisResponse(request, 1)),
                  !.detectedLanguage = IF postType # "original"
                                       THEN e.targetLanguage
                                       ELSE detectLanguage(DraftScripts(text))]

InitApply ==
    /\ \E postType \in ApplyPostTypes, text \in ContentInputs \ {""} :
        editor = AnalysedEditor(postType, text)
    /\ debounce = None
    /\ analyze_timer = None
    /\ target_fetches = [f \in TargetFetchIds |-> FreeTargetFetch]
    /\ personalized_fetches = [g \in PersonalizedFetchIds |-> FreePersonalizedFetch]
    /\ auto_analyze = FALSE
    /\ analyze_calls = [a \in AnalyzeCallIds |->
           IF a = 1 THEN [FreeAnalyzeCall EXCEPT !.state = "done"]
           ELSE FreeAnalyzeCall]
    /\ apply_calls = [b \in ApplyCallIds |-> FreeApplyCall]

\* choosing tips and applying them, while the draft may be analysed again
NextApply ==
    \/ \E tipId \in TipIds : handleTipToggle(tipId)
    \/ handleApplyTips
    \/ \E b \in ApplyCallIds : ApplyReturns(b)
    \/ \E type \in ApplyPostTypes : setPostType(type)
    \/ AnalyzeClick
    \/ \E a \in AnalyzeCallIds : AnalyzeReturns(a)

\* ----------------------------- the tip generator (_generate_quick_tips)
\* character counts at, just below and just above the two length thresholds
TipCharCounts == {0, 49, 50, 51, 140, 249, 250, 251}
\* hashtag counts around the two hashtag thresholds
TipHashtagCounts == {0, 1, 3, 4}
TipInputs ==
    {PostFeatures(c, q, FALSE, e, m, h, FALSE) :
        c \in TipCharCounts, q \in BOOLEAN, e \in BOOLEAN,
        m \in {"none", "image"}, h \in TipHashtagCounts}

TipsIdle ==
    /\ tips_pc = "idle"
    /\ tips_features = PostFeatures(0, FALSE, FALSE, FALSE, "none", 0, FALSE)
    /\ quick_tips = <<>>

InitTips ==
    /\ tips_pc = "start"
    /\ tips_features \in TipInputs
    /\ quick_tips = <<>>

\* quick_tips = self._generate_quick_tips(post_features, scores)
GenerateTips ==
    /\ tips_pc = "start"
    /\ quick_tips' = generate_quick_tips(tips_features)
    /\ tips_pc' = "done"
    /\ UNCHANGED tips_features
    /\ UNCHANGED besidesTips

NextTips == GenerateTips

\* ------------------------------------ PostFeatures.optimal_length
\* longest post the length score is read on
MaxLengthChars == 345

LengthIdle ==
    /\ length_pc = "idle"
    /\ length_chars = 0
    /\ length_scores = <<>>

InitLength ==
    /\ length_pc = "start"
    /\ length_chars \in 0..MaxLengthChars
    /\ length_scores = <<>>

\* features.optimal_length for the post and for the post one character longer
ReadLength ==
    /\ length_pc = "start"
    /\ length_scores' =
           <<optimal_length(length_chars), optimal_length(length_chars + 1)>>
    /\ length_pc' = "done"
    /\ UNCHANGED length_chars
    /\ UNCHANGED besidesLength

NextLength == ReadLength

\* ------------------------------------- the OG image route (og/[username])
\* seconds a request is followed for
MaxOgSeconds == 11
\* the versions of the route: the abort timer's delay (seconds) and the
\* scores drawn when no analysis was obtained
OgVersions == {"timeout5", "timeout10", "timeout3"}
OgTimeoutSeconds == [timeout5 |-> 5, timeout10 |-> 10, timeout3 |-> 3]
OgFallbackScores ==
    [timeout5 |-> [d \in Dimensions |-> 50],
     timeout10 |-> [d \in Dimensions |-> 50],
     timeout3 |-> [d \in Dimensions |-> 0]]
\* the analysis the backend returns for the handle
OgAnalysis ==
    [username |-> "alice", summary |-> "summary",
     scores |-> [reach |-> 81, engagement |-> 64, virality |-> 37,
                 quality |-> 72, longevity |-> 58]]

\* Math.round(x / 5) for a non-negative integer x
RoundFifth(x) == (2 * x + 5) \div 10

\* the part of GET after the try block: the scores drawn and the response
OgImage(analysis, version) ==
    LET sc == IF analysis # None THEN analysis[1].scores
              ELSE OgFallbackScores[version]
    IN  [status |-> 200, content_type |-> "image/png", scores |-> sc,
         avgScore |-> RoundFifth(sc.reach + sc.engagement + sc.virality
                                 + sc.quality + sc.longevity)]

OgIdle ==
    [pc |-> "idle", version |-> "", elapsed |-> 0, timer |-> "none",
     outcome |-> "-", image |-> None]
InitOg == og = OgIdle

\* GET up to `await fetch(...)`: the abort timer is armed, the fetch is sent
OgGet(version) ==
    /\ og.pc = "idle"
    /\ og' = [og EXCEPT !.pc = "fetching", !.version = version,
                        !.timer = "armed"]
    /\ UNCHANGED besidesOg

\* a second passes; the armed timer fires no later than its delay
OgTick ==
    /\ og.pc \in {"fetching", "reading"}
    /\ og.elapsed < MaxOgSeconds
    /\ ~(og.timer = "armed" /\ og.elapsed >= OgTimeoutSeconds[og.version])
    /\ og' = [og EXCEPT !.elapsed = @ + 1]
    /\ UNCHANGED besidesOg

\* the abort's rejection escaping the handler: no image, a server error
OgTimeout_Uncaught ==
    /\ og.pc = "fetching" /\ og.timer = "armed"
    /\ og.elapsed >= OgTimeoutSeconds[og.version]
    /\ og' = [og EXCEPT !.pc = "done", !.timer = "fired",
                        !.outcome = "timeout", !.image = None]
    /\ UNCHANGED besidesOg

\* the timer fires: controller.abort() rejects the fetch, the catch block
\* leaves analysis null, and the image is returned
OgTimeout ==
    /\ og.pc = "fetching" /\ og.timer = "armed"
    /\ og.elapsed >= OgTimeoutSeconds[og.version]
    /\ og' = [og EXCEPT !.pc = "done", !.timer = "fired",
                        !.outcome = "timeout",
                        !.image = Some(OgImage(None, og.version))]
    /\ UNCHANGED besidesOg

\* the fetch rejects (the backend cannot be reached): catch, then the image
OgFetchFails ==
    /\ og.pc = "fetching"
    /\ og.elapsed < OgTimeoutSeconds[og.version]
    /\ og' = [og EXCEPT !.pc = "done", !.outcome = "network",
                        !.image = Some(OgImage(None, og.version))]
    /\ UNCHANGED besidesOg

\* the fetch resolves with a response: clearTimeout, then either
\* `await response.json()` or, for a response that is not ok, the image
OgResponse(ok) ==
    /\ og.pc = "fetching"
    /\ og.elapsed < OgTimeoutSeconds[og.version]
    /\ og' = IF ok
             THEN [og EXCEPT !.pc = "reading", !.timer = "cleared"]
             ELSE [og EXCEPT !.pc = "done", !.timer = "cleared",
                             !.outcome = "http_error",
                             !.image = Some(OgImage(None, og.version))]
    /\ UNCHANGED besidesOg

\* response.json() settles: the analysis, or a rejection caught by the
\* catch block; then the image
OgBody(parses) ==
    /\ og.pc = "reading"
    /\ og' = IF parses
             THEN [og EXCEPT !.pc = "done", !.outcome = "ok",
                             !.image = Some(OgImage(Some(OgAnalysis), og.version))]
             ELSE [og EXCEPT !.pc = "done", !.outcome = "bad_body",
                             !.image = Some(OgImage(None, og.version))]
    /\ UNCHANGED besidesOg

NextOg ==
    \/ \E version \in OgVersions : OgGet(version)
    \/ OgTick
    \/ OgTimeout
    \/ OgFetchFails
    \/ \E ok \in BOOLEAN : OgResponse(ok)
    \/ \E parses \in BOOLEAN : OgBody(parses)

\* ---------------------------------------------------------- specifications
StartScorer ==
    InitScorer /\ InitPredictor /\ InitPage /\ InitEditor /\ PolishIdle
    /\ ContextIdle /\ TipsIdle /\ LengthIdle /\ InitOg /\ AnalysisIdle
StartPredictor ==
    ScorerIdle /\ InitPredictor /\ InitPage /\ InitEditor /\ PolishIdle
    /\ ContextIdle /\ TipsIdle /\ LengthIdle /\ InitOg /\ AnalysisIdle

StartPage ==
    ScorerIdle /\ InitPredictor /\ InitPage /\ InitEditor /\ PolishIdle
    /\ ContextIdle /\ TipsIdle /\ LengthIdle /\ InitOg /\ AnalysisIdle
StartEditor ==
    ScorerIdle /\ InitPredictor /\ InitPage /\ InitEditor /\ PolishIdle
    /\ ContextIdle /\ TipsIdle /\ LengthIdle /\ InitOg /\ AnalysisIdle

StartContext ==
    ScorerIdle /\ InitPredictor /\ InitPage /\ InitEditor /\ PolishIdle
    /\ InitContext /\ TipsIdle /\ LengthIdle /\ InitOg /\ AnalysisIdle
StartOg ==
    ScorerIdle /\ InitPredictor /\ InitPage /\ InitEditor /\ PolishIdle
    /\ ContextIdle /\ TipsIdle /\ LengthIdle /\ InitOg /\ AnalysisIdle

StartPolish ==
    ScorerIdle /\ InitPredictor /\ InitPage /\ InitPolish /\ ContextIdle
    /\ TipsIdle /\ LengthIdle /\ InitOg /\ AnalysisIdle
StartTips ==
    ScorerIdle /\ InitPredictor /\ InitPage /\ InitEditor /\ PolishIdle
    /\ ContextIdle /\ InitTips /\ LengthIdle /\ InitOg /\ AnalysisIdle

StartLength ==
    ScorerIdle /\ InitPredictor /\ InitPage /\ InitEditor /\ PolishIdle
    /\ ContextIdle /\ TipsIdle /\ InitLength /\ InitOg /\ AnalysisIdle

StartAnalysis ==
    ScorerIdle /\ InitPredictor /\ InitPage /\ InitEditor /\ InitAnalysis
    /\ PolishIdle /\ ContextIdle /\ TipsIdle /\ LengthIdle /\ InitOg

StartApply ==
    ScorerIdle /\ InitPredictor /\ InitPage /\ InitApply /\ PolishIdle
    /\ ContextIdle /\ TipsIdle /\ LengthIdle /\ InitOg

\* the two places a profile is fetched and cached, one at a time: a run of
\* the score predictor, or a run of the profile page
NextProfileFetch ==
    \/ InitPage /\ NextPredictor
    \/ InitPredictor /\ NextPage

SpecScorer == StartScorer /\ [][NextScorer]_vars

SpecPredictor == StartPredictor /\ [][NextPredictor]_vars

SpecPage == StartPage /\ [][NextPage]_vars

SpecEditor == StartEditor /\ [][NextEditor]_vars

SpecAnalysis == StartAnalysis /\ [][NextAnalysis]_vars

SpecApply == StartApply /\ [][NextApply]_vars

SpecPolish == StartPolish /\ [][NextPolish]_vars

SpecTips == StartTips /\ [][NextTips]_vars

SpecLength == StartLength /\ [][NextLength]_vars

SpecProfileFetch == StartPredictor /\ [][NextProfileFetch]_vars

SpecContext == StartContext /\ [][NextContext]_vars

SpecOg == StartOg /\ [][NextOg]_vars

\* ------------------------------------------------------------------ claims
\* C1: for every ActionProbabilities vector with fields in [0,1], each of the
\* five dimensions returned by calculate_scores lies in [0,100].
C1_ScoresInRange ==
    scorer_pc = "scored" =>
        \A d \in Dimensions : 0 <= scores[d] /\ scores[d] <= 100 * Scale

\* C2: every one of the 14 fields returned by estimate_probabilities lies in
\* [0,1], whatever the features, the profile and the boost map.
C2_ProbsClamped ==
    scorer_pc = "estimated" =>
        \A a \in Actions : 0 <= probs[a] /\ probs[a] <= Scale

\* C2 witness: a quote draft under a negative boost whose clamp acted at both
\* ends (p_quote cut at 0, some field cut at 1)
C2_Witness ==
    /\ scorer_pc = "estimated"
    /\ post_features.is_quote
    /\ context_boost # None
    /\ \E a \in DOMAIN context_boost[1] : context_boost[1][a] < 0
    /\ probs["p_quote"] = 0
    /\ probs["p_click"] = 0

\* C3: with an all-zero profile the engagement and virality probabilities
\* are at or above their documented floors.
C3_FloorsHold ==
    (scorer_pc = "estimated" /\ profile_features = ZeroProfile("u")) =>
        /\ probs["p_favorite"] >= Prob(100)
        /\ probs["p_reply"] >= Prob(100)
        /\ probs["p_repost"] >= Prob(50)
        /\ probs["p_quote"] >= Prob(50)
        /\ probs["p_share"] >= Prob(50)

\* C13: with a context boost map, the probability of each action named in
\* the map is its pre-boost value scaled by (1 + boost) and clamped to [0,1],
\* and the probability of every other action is the one computed with no
\* context.
C13_BoostScalesNamedActionsOnly ==
    (scorer_pc = "estimated" /\ context_boost # None) =>
        LET pre == feature_probabilities(post_features, profile_features)
            plain == estimate_probabilities(post_features, profile_features, None)
            boost == context_boost[1]
        IN  \A a \in Actions :
                IF a \in DOMAIN boost
                THEN probs[a] =
                         Max2(0, Min2(Scale,
                             (pre[a] * (BoostUnit + boost[a])) \div BoostUnit))
                ELSE probs[a] = plain[a]

\* C13 witness: under the large-account boost the click and profile-click
\* probabilities were raised by 25% and 20% and the reply and dwell
\* probabilities are those of the draft without context
C13_Witness ==
    /\ scorer_pc = "estimated"
    /\ context_boost = Some([p_click |-> 5, p_profile_click |-> 4])
    /\ post_features.has_question
    /\ profile_features.avg_engagement_rate = 2 * (Scale \div 100)
    /\ probs["p_click"] = (Prob(2000) * 25) \div 20
    /\ probs["p_profile_click"] = (Prob(1000) * 24) \div 20
    /\ probs["p_reply"] =
           estimate_probabilities(post_features, profile_features,
                                  None)["p_reply"]
    /\ probs["p_reply"] > 0

\* ------------------------------------------------- claims on the predictor
\* the result predict returns for the same request made without a target URL
\* once the profile features are known
WithoutTargetUrl(q) ==
    AfterProfile([q EXCEPT !.target_post_url = NoUrl], q.profile_features[1])

\* the profile provider was unavailable for request q
ProviderUnavailable(q) == q.fetched \in {"fail", "noprofile"}

\* C4 (as claimed): when the profile provider is unavailable or returns an
\* empty history, the request completes successfully on the default
\* ProfileFeatures record.
C4_DefaultOnUnavailableOrEmpty ==
    \A r \in ReqIds :
        (req[r].pc = "done" /\ req[r].fetched \in {"fail", "noprofile", "empty"})
        => /\ req[r].status = 200
           /\ req[r].result # None
           /\ req[r].profile_features =
                  Some(DefaultProfileFeatures(req[r].username))

\* C4 (amended): a request never fails because of the profile fetch; when
\* the provider is unavailable it runs on the default record, and when the
\* provider returns an empty history it runs on the all-zero record of
\* extract_profile_features.
C4_ProfileFetchNeverFails ==
    \A r \in ReqIds :
        /\ req[r].pc = "done" =>
              /\ req[r].status = 200
              /\ req[r].result # None
              /\ DOMAIN req[r].result[1].scores = Dimensions
              /\ Len(req[r].result[1].quick_tips) <= 5
        /\ (req[r].pc \in {"await_context", "done"} /\ ProviderUnavailable(req[r]))
           => req[r].profile_features =
                  Some(DefaultProfileFeatures(req[r].username))
        /\ (req[r].pc \in {"await_context", "done"} /\ req[r].fetched = "empty")
           => req[r].profile_features = Some(ZeroProfile(req[r].username))

\* C4 witness: one request completed on the default record after a failed
\* fetch, another completed on the all-zero record of an empty history
C4_Witness ==
    \E r1, r2 \in ReqIds :
        /\ req[r1].pc = "done" /\ req[r1].fetched = "fail"
        /\ req[r1].status = 200
        /\ req[r2].pc = "done" /\ req[r2].fetched = "empty"
        /\ req[r2].status = 200

\* C5: a reply/quote request whose context fetch failed succeeds with no
\* context, and its probabilities and scores equal those of the same request
\* made without a target URL.
C5_NoContextOnFetchFailure ==
    \A r \in ReqIds :
        (req[r].pc = "done" /\ NeedsContext(req[r]) /\ req[r].target = None)
        => /\ req[r].status = 200
           /\ req[r].result # None
           /\ req[r].result[1].context = None
           /\ req[r].result[1].probabilities =
                  WithoutTargetUrl(req[r]).result[1].probabilities
           /\ req[r].result[1].scores =
                  WithoutTargetUrl(req[r]).result[1].scores

\* C5 witness: a reply request with a target URL completed after its
\* context fetch failed while another request with the same handle and
\* content but no target URL completed with the same profile features
C5_Witness ==
    \E r1, r2 \in ReqIds :
        /\ req[r1].pc = "done" /\ req[r1].post_type = "reply"
        /\ req[r1].target_post_url = GoodUrl /\ req[r1].target = None
        /\ req[r2].pc = "done" /\ req[r2].post_type = "reply"
        /\ req[r2].target_post_url = NoUrl
        /\ req[r2].username = req[r1].username
        /\ req[r2].profile_features = req[r1].profile_features
        /\ req[r2].result[1].scores = req[r1].result[1].scores

Started(r) == req[r].pc = "new" /\ req'[r].pc # "new"

\* C6: a value requested again for the same key within its TTL is returned
\* with the content the first request got, without a second upstream fetch.
C6_CachedWithinTTL ==
    [][\A r \in ReqIds :
          (/\ Started(r)
           /\ profile_cache[req'[r].username] # None
           /\ now - cached_at[req'[r].username] < ProfileTTLMinutes)
          => /\ profile_calls' = profile_calls
             /\ profile_cache' = profile_cache
             /\ req'[r].profile_features = profile_cache[req'[r].username]
             /\ \E r0 \in ReqIds \ {r} :
                   /\ req[r0].username = req'[r].username
                   /\ req[r0].fetched \in {"ok", "empty"}
                   /\ req[r0].profile_features = req'[r].profile_features
      ]_vars

\* C6 witness: the second request for a handle was served from the cache
\* within the TTL and the provider was called once
C6_Witness ==
    \E r1, r2 \in ReqIds :
        /\ req[r1].fetched = "ok" /\ req[r2].fetched = "hit"
        /\ req[r2].pc = "done"
        /\ req[r2].hit_age < ProfileTTLMinutes
        /\ req[r2].username = req[r1].username
        /\ req[r2].profile_features = req[r1].profile_features
        /\ profile_calls[req[r1].username] = 1

\* C7: an expired cache entry is never returned: a request is served from
\* the cache only while the entry is younger than its TTL.
C7_ExpiredNeverReturned ==
    \A r \in ReqIds :
        req[r].fetched = "hit" => req[r].hit_age < ProfileTTLMinutes

\* the result of request q run alone, from a cold cache, against the
\* answers the providers gave it
ColdCache == [h \in Handles |-> None]
AloneResult(q) ==
    LET features ==
            ProfileFromResponse(ColdCache, q.username, q.response[1]).features
    IN  PredictResult(q.post_features, features,
            IF NeedsContext(q) THEN analyze_context(q.target, q.context_at)
            ELSE [context |-> None, context_boost |-> None])

\* C10: requests for the same cold key are not coalesced, and each request
\* that fetched returns the complete result it would return if run alone
\* against the same upstream data.
C10_ConcurrentColdRequests ==
    \A r \in ReqIds :
        (req[r].pc = "done" /\ req[r].fetched \notin {"hit", "-"})
        => /\ req[r].status = 200
           /\ req[r].result = Some(AloneResult(req[r]))

\* C10 witness: two requests for the same cold handle both fetched, got
\* different answers, and both completed
C10_Witness ==
    \E r1, r2 \in ReqIds :
        /\ r1 # r2
        /\ req[r1].username = req[r2].username
        /\ req[r1].pc = "done" /\ req[r2].pc = "done"
        /\ req[r1].fetched = "ok" /\ req[r2].fetched = "ok"
        /\ req[r1].response # req[r2].response
        /\ profile_calls[req[r1].username] = 2
        /\ profile_cache[req[r1].username] = req[r1].profile_features

\* ----------------------------------------------- claims on the profile page
\* C8: a request with the bypass (refresh) flag never reads the cache and
\* always fetches; on success the fresh value is written back, and the next
\* non-bypass request for the same key returns that fresh value.
C8_BypassWritesThrough ==
    [][/\ (page.mounted /\ page'.mounted /\ ~page.loading /\ page'.loading)
          => /\ page'.analysis = page.analysis
             /\ \E f \in FetchIds :
                   /\ fetches[f].state = "free"
                   /\ fetches'[f].state = "sent" /\ fetches'[f].refresh
       /\ \A f \in FetchIds :
             (fetches[f].state = "answered" /\ fetches[f].refresh
                /\ fetches'[f].state = "free")
             => sessionStorage'[fetches[f].username] =
                    Some(JSONstringify(fetches[f].value[1]))
       /\ \A u \in Handles :
             (~page.mounted /\ page'.mounted /\ page'.username = u
                /\ last_refresh[u] # None)
             => /\ page'.analysis = last_refresh[u]
                /\ fetches' = fetches
      ]_vars

\* what the editor shows of the target post and the personalized post
EditorVisible(e) ==
    <<e.targetPostContext, e.targetFetchError, e.targetLanguage,
      e.personalizedPost>>

\* C9: a target-context or personalized-post request superseded by a changed
\* URL, post type or other dependency still runs to completion, and when it
\* completes the editor's visible state does not change.
C9_AbandonedResultDiscarded ==
    [][/\ \A f \in TargetFetchIds :
            (/\ target_fetches[f].state = "sent"
             /\ target_fetches[f].superseded
             /\ target_fetches'[f].state = "free")
            => EditorVisible(editor') = EditorVisible(editor)
       /\ \A g \in PersonalizedFetchIds :
            (/\ personalized_fetches[g].state = "sent"
             /\ personalized_fetches[g].superseded
             /\ personalized_fetches'[g].state = "free")
            => EditorVisible(editor') = EditorVisible(editor)]_vars

\* ------------------------------------------- claims on the context analyzer
\* the target post analysed, the boost map and the reason entries returned
AnalyzedPost == context_target[1]
BoostMap == context_result[1].context_boost[1]
Adjustments == context_result[1].context[1].context_adjustments
IsLargeAccount == AnalyzedPost.views_count > 100000
IsFresh ==
    /\ AnalyzedPost.posted_at # None
    /\ context_now - AnalyzedPost.posted_at[1] < 60
HasReplyCompetition == AnalyzedPost.replies_count > 1000

\* C11 (as claimed): when both the large-account and the freshness condition
\* hold, the click boost in the map is 0.25 + 0.15 = 0.40.
C11_ClickBoostIsSumOfTwo ==
    (context_pc = "analyzed" /\ context_target # None
        /\ IsLargeAccount /\ IsFresh)
    => BoostMap["p_click"] = 5 + 3

\* C11 (amended): when both conditions hold, the click boost is the sum
\* 0.25 + 0.15 = 0.40 of the two boosts, lowered by the reply-competition
\* penalty 0.10 when the target also has more than 1,000 replies.
C11_ClickBoostAdditive ==
    (context_pc = "analyzed" /\ context_target # None
        /\ IsLargeAccount /\ IsFresh)
    => BoostMap["p_click"] =
           5 + 3 - (IF HasReplyCompetition THEN 2 ELSE 0)

\* C11 witness: a large, fresh target without reply competition analysed to
\* a click boost of 0.40
C11_Witness ==
    /\ context_pc = "analyzed" /\ context_target # None
    /\ IsLargeAccount /\ IsFresh /\ ~HasReplyCompetition
    /\ BoostMap["p_click"] = 8
    /\ BoostMap["p_profile_click"] = 4

\* the kinds of the recommendations recorded with the context
RecommendationKinds ==
    LET r == context_result[1].context[1].recommendations
    IN  {r[i].kind : i \in 1..Len(r)}

\* C12: the large-account boost is applied exactly when views > 100,000, the
\* freshness boost exactly when age < 60 minutes and the reply-competition
\* penalty exactly when replies > 1,000, and each reason entry is recorded
\* if and only if its adjustment was applied.
C12_ThresholdsAndReasons ==
    (context_pc = "analyzed" /\ context_target # None) =>
        /\ ("p_profile_click" \in DOMAIN BoostMap) <=> IsLargeAccount
        /\ IsLargeAccount => BoostMap["p_profile_click"] = 4
        /\ ("p_click" \in DOMAIN BoostMap)
               <=> (IsLargeAccount \/ IsFresh \/ HasReplyCompetition)
        /\ DictGet(BoostMap, "p_click", 0) =
               (IF IsLargeAccount THEN 5 ELSE 0) + (IF IsFresh THEN 3 ELSE 0)
                   - (IF HasReplyCompetition THEN 2 ELSE 0)
        /\ DOMAIN BoostMap \subseteq {"p_click", "p_profile_click"}
        /\ ("large_account_bonus" \in DOMAIN Adjustments) <=> IsLargeAccount
        /\ ("freshness_bonus" \in DOMAIN Adjustments) <=> IsFresh
        /\ ("reply_competition" \in DOMAIN Adjustments) <=> HasReplyCompetition
        /\ ("large_account" \in RecommendationKinds) <=> IsLargeAccount
        /\ ("freshness" \in RecommendationKinds) <=> IsFresh
        /\ ("reply_competition" \in RecommendationKinds) <=> HasReplyCompetition

\* C12 witness: a target just above the view threshold, just inside the
\* freshness window and exactly at the reply threshold: two adjustments
\* applied and recorded, the third neither
C12_Witness ==
    /\ context_pc = "analyzed" /\ context_target # None
    /\ AnalyzedPost.views_count = 100001
    /\ AnalyzedPost.posted_at = Some(context_now - 59)
    /\ AnalyzedPost.replies_count = 1000
    /\ DOMAIN Adjustments = {"large_account_bonus", "freshness_bonus"}
    /\ BoostMap = [p_click |-> 8, p_profile_click |-> 4]

\* ------------------------------------------------ claims on the post editor
\* C15: while the target URL is malformed the editor behaves as if no target
\* had been given: no target context is held, no fetch error is shown and no
\* context fetch is pending.
C15_MalformedUrlNoContext ==
    (/\ editor.postType # "original"
     /\ editor.targetUrl # ""
     /\ ~MatchesStatusUrl(editor.targetUrl))
    => /\ editor.targetPostContext = None
       /\ editor.targetFetchError = None
       /\ debounce = None

\* ---------------------------------------------- claims on the OG image route
\* C16: a fetch that outlasts the route's timeout window is handled like a
\* failed fetch: the route still answers with its image, drawn from the same
\* fallback scores it uses when the fetch fails, and the fetch is never
\* awaited beyond the window.
C16_TimeoutHandledAsFailure ==
    /\ og.pc = "fetching" => og.elapsed <= OgTimeoutSeconds[og.version]
    /\ og.pc = "done" =>
          /\ og.image # None
          /\ og.image[1].status = 200
          /\ og.outcome \in {"timeout", "network", "http_error", "bad_body"}
                => /\ og.image[1].scores = OgFallbackScores[og.version]
                   /\ og.image[1].avgScore =
                          (IF og.version = "timeout3" THEN 0 ELSE 50)
          /\ og.outcome = "timeout"
                => og.elapsed = OgTimeoutSeconds[og.version]

\* C16 witness: the 3-second route timed out and returned the image with
\* its all-zero fallback scores
C16_Witness ==
    /\ og.pc = "done" /\ og.outcome = "timeout" /\ og.version = "timeout3"
    /\ og.elapsed = 3
    /\ og.image # None
    /\ og.image[1].scores = [d \in Dimensions |-> 0]

C18_AtMostFiveDistinctTips ==
    tips_pc = "done" =>
        /\ Len(quick_tips) <= 5
        /\ \A i, j \in 1..Len(quick_tips) :
              quick_tips[i] = quick_tips[j] => i = j

\* a post that triggers a rule of every group: exactly five tips returned
C18_Witness ==
    /\ tips_pc = "done"
    /\ Len(quick_tips) = 5
    /\ ~tips_features.has_emoji /\ tips_features.hashtag_count > 3

\* the rules in priority order, and when each one contributes its tip
TipRules ==
    <<"add_emoji", "add_question", "add_image", "add_content", "shorten",
      "add_hashtags", "trim_hashtags">>
TipMissing(rule) ==
    CASE rule = "add_emoji" -> ~tips_features.has_emoji
      [] rule = "add_question" -> ~tips_features.has_question
      [] rule = "add_image" -> ~tips_features.has_media
      [] rule = "add_content" -> tips_features.char_count < 50
      [] rule = "shorten" -> tips_features.char_count > 250
      [] rule = "add_hashtags" -> tips_features.hashtag_count = 0
      [] rule = "trim_hashtags" -> tips_features.hashtag_count > 3
TipRank(tip) == CHOOSE k \in 1..Len(TipRules) : TipRules[k] = tip
TipsReturned == {quick_tips[i] : i \in 1..Len(quick_tips)}

\* C19: the returned tips appear in the fixed priority order (emoji,
\* question, media, too short, too long, no hashtag, too many hashtags), and
\* a rule contributes its tip if and only if the post does not already
\* satisfy what the rule asks for.
C19_PriorityOrderAndIff ==
    tips_pc = "done" =>
        /\ \A k \in 1..Len(TipRules) :
              TipRules[k] \in TipsReturned <=> TipMissing(TipRules[k])
        /\ \A i, j \in 1..Len(quick_tips) :
              i < j => TipRank(quick_tips[i]) < TipRank(quick_tips[j])

\* a post with an emoji and media, exactly at the too-long threshold and
\* exactly at the hashtag threshold: only the question tip is returned
C19_Witness ==
    /\ tips_pc = "done"
    /\ tips_features.has_emoji /\ tips_features.has_media
    /\ ~tips_features.has_question
    /\ tips_features.char_count = 250 /\ tips_features.hashtag_count = 3
    /\ quick_tips = <<"add_question">>

\* the provider answered request r with a profile whose post history is empty
EmptyHistory(r) ==
    /\ req[r].response # None
    /\ req[r].response[1].success
    /\ req[r].response[1].profile # None
    /\ req[r].response[1].profile[1].tweets = <<>>

\* C20: for an empty post history extract_profile_features does not fail and
\* returns a ProfileFeatures record whose post count, every average, rate and
\* ratio, and the consistency score are all 0.
C20_EmptyHistoryAllZero ==
    \A r \in ReqIds :
        (EmptyHistory(r) /\ req[r].pc \in {"await_context", "done"})
        => /\ req[r].status # 500
           /\ req[r].profile_features # None
           /\ LET features == req[r].profile_features[1]
              IN  /\ features.username = req[r].username
                  /\ features.tweet_count = 0
                  /\ \A field \in {"avg_engagement_rate", "avg_likes",
                                    "avg_retweets", "avg_replies", "avg_views",
                                    "retweet_ratio", "quote_ratio", "media_ratio",
                                    "engagement_consistency"} :
                        features[field] = 0

\* a request answered with an empty history has completed with status 200 on
\* features whose consistency is 0, and the record is what the cache holds
C20_Witness ==
    \E r \in ReqIds :
        /\ EmptyHistory(r)
        /\ req[r].pc = "done" /\ req[r].status = 200
        /\ req[r].profile_features[1].engagement_consistency = 0
        /\ profile_cache[req[r].username] = req[r].profile_features

\* the provider answered request r with a profile, and the features
\* extracted from it are known
Extracted(r) ==
    /\ req[r].response # None
    /\ req[r].response[1].success
    /\ req[r].response[1].profile # None
    /\ req[r].pc \in {"await_context", "done"}
History(r) == req[r].response[1].profile[1].tweets
\* engagement rates of the history in ten-thousandths, their mean and their
\* population variance
RateOf(r, i) == History(r)[i].engagement_rate \div Prob(1)
MeanRate(r) ==
    SumSeq([i \in 1..Len(History(r)) |-> RateOf(r, i)]) \div Len(History(r))
VarianceOfRates(r) ==
    SumSeq([i \in 1..Len(History(r)) |->
               (RateOf(r, i) - MeanRate(r)) * (RateOf(r, i) - MeanRate(r))])
        \div Len(History(r))

\* c is 1 / (1 + sd) for the standard deviation sd (at most `most`) that
\* belongs to the variance, both in ten-thousandths
StdDevGives(variance, most, c) ==
    \E sd \in 0..most :
        /\ sd * sd <= variance
        /\ variance < (sd + 1) * (sd + 1)
        /\ c = Prob((10000 * 10000) \div (10000 + sd))

\* C21 (as claimed): a history of fewer than 2 posts has consistency 1; a
\* history of 2 or more posts has consistency 1 / (1 + stddev).
C21_ConsistencyByHistoryLength ==
    \A r \in ReqIds :
        Extracted(r) =>
            LET c == req[r].profile_features[1].engagement_consistency
            IN  IF Len(History(r)) < 2
                THEN c = Scale
                ELSE StdDevGives(VarianceOfRates(r), MeanRate(r) * Len(History(r)), c)

\* C21 (amended): a history of exactly 1 post has consistency 1, a history
\* of 2 or more posts has consistency 1 / (1 + stddev) with the population
\* standard deviation of the engagement rates, and an empty history has
\* consistency 0.
C21_ConsistencyOfNonEmptyHistory ==
    \A r \in ReqIds :
        Extracted(r) =>
            LET c == req[r].profile_features[1].engagement_consistency
            IN  CASE Len(History(r)) = 0 -> c = 0
                  [] Len(History(r)) = 1 -> c = Scale
                  [] OTHER ->
                        StdDevGives(VarianceOfRates(r), MeanRate(r) * Len(History(r)), c)

\* one request ran on a one-post history (consistency 1) and another on a
\* two-post history whose rates differ (consistency below 1)
C21_Witness ==
    \E r1, r2 \in ReqIds :
        /\ Extracted(r1) /\ Len(History(r1)) = 1
        /\ req[r1].profile_features[1].engagement_consistency = Scale
        /\ Extracted(r2) /\ Len(History(r2)) = 2
        /\ VarianceOfRates(r2) > 0
        /\ req[r2].profile_features[1].engagement_consistency < Scale

\* C22: optimal_length is 1.0 for every char_count from 70 to 200, strictly
\* increasing in char_count below 70, and above 200 non-increasing and never
\* below 0.5.
C22_OptimalLengthShape ==
    length_pc = "done" =>
        /\ (70 <= length_chars /\ length_chars <= 200) => length_scores[1] = Scale
        /\ length_chars < 70 => length_scores[1] < length_scores[2]
        /\ length_chars >= 200 => length_scores[2] <= length_scores[1]
        /\ length_chars > 200 => 2 * length_scores[1] >= Scale
        /\ length_scores[1] <= Scale

\* a post long enough for the floor: its length score is exactly 0.5 while
\* (char_count - 200) / 280 is above 0.5
C22_Witness ==
    /\ length_pc = "done"
    /\ 2 * (length_chars - 200) > 280
    /\ 2 * length_scores[1] = Scale

\* request r resumes from its profile fetch in this step, and the fetch failed
ProfileFetchFailed(r) ==
    /\ req[r].pc = "await_profile" /\ req'[r].pc # "await_profile"
    /\ req'[r].fetched \in {"fail", "noprofile"}
\* the page's call f resumes in this step, and the call failed
PageFetchFailed(f) == fetches[f].state = "failed" /\ fetches'[f].state = "free"

IsSelected(selection, tipId) ==
    \E i \in 1..Len(selection) : selection[i] = tipId

\* C23: under every sequence of tip toggles the selection holds at most 3
\* tips and no tip id twice; toggling a selected tip removes it, and toggling
\* an unselected tip while 3 are selected leaves the selection unchanged.
C23_TipSelectionCap ==
    /\ [](/\ Len(editor.selectedTips) <= 3
          /\ \A i, j \in 1..Len(editor.selectedTips) :
                editor.selectedTips[i] = editor.selectedTips[j] => i = j)
    /\ [][\A tipId \in TipIds : handleTipToggle(tipId) =>
            LET prev == editor.selectedTips
                next == editor'.selectedTips
            IN  /\ IsSelected(prev, tipId) =>
                    /\ ~IsSelected(next, tipId)
                    /\ Len(next) = Len(prev) - 1
                    /\ \A i \in 1..Len(prev) :
                          prev[i] # tipId => IsSelected(next, prev[i])
                /\ (~IsSelected(prev, tipId) /\ Len(prev) = 3) => next = prev]_vars

\* C23 witness: three tips are selected while the row offers a fourth one
C23_Witness ==
    /\ TipsRowShown
    /\ Len(editor.selectedTips) = 3
    /\ \E tipId \in TipChoices : ~IsSelected(editor.selectedTips, tipId)

\* C24: whenever a new analysis result is installed or the post type
\* changes, the tip selection is emptied and the suggestion and the improved
\* scores are reset to null; a post-type change also clears the displayed
\* analysis and the target-post context.
C24_ResetsOnAnalysisAndPostType ==
    [][/\ (\/ editor'.postType # editor.postType
           \/ editor'.analysis # None /\ editor'.analysis # editor.analysis) =>
            /\ editor'.selectedTips = <<>>
            /\ editor'.suggestion = None
            /\ editor'.improvedScores = None
       /\ editor'.postType # editor.postType =>
            /\ editor'.analysis = None
            /\ editor'.targetPostContext = None]_vars

\* C24 witness: tips were applied (the apply-tips call returned a
\* suggestion), and after the second analysis was installed the selection,
\* the suggestion and the improved scores are empty again
C24_Witness ==
    /\ apply_calls[1].state = "done"
    /\ editor.analysis # None /\ editor.analysis[1].call = 2
    /\ editor.selectedTips = <<>>
    /\ editor.suggestion = None
    /\ editor.improvedScores = None

\* C25: the improved scores computed after applying tips have every
\* dimension in [0,100], whatever signed improvement values the server
\* returns, and differ from the analysed scores only in dimensions named in
\* predicted_improvement.
C25_ImprovedScoresInRange ==
    editor.improvedScores # None =>
        LET improved == editor.improvedScores[1]
            named == DOMAIN editor.suggestion[1].predicted_improvement
        IN  /\ \A d \in Dimensions :
                  0 <= improved[d] /\ improved[d] <= 100 * Scale
            /\ (/\ editor.analysis # None
                /\ editor.analysis[1].call = editor.suggestion[1].analysed_by) =>
                  \A d \in Dimensions :
                      improved[d] # editor.analysis[1].scores[d] => d \in named

\* the step sends analyze call a
AnalyzeIssued(a) ==
    analyze_calls[a].state = "free" /\ analyze_calls'[a].state = "sent"

C27_DisplayedAnalysisIsCurrent ==
    editor.analysis # None =>
        /\ editor.analysis[1].request.post_type = editor.postType
        /\ \A b \in AnalyzeCallIds :
              b > editor.analysis[1].call => analyze_calls[b].state # "done"

\* C28: at any time at most one polish request is in flight for each panel
\* (the suggestion and the personalized post), also when both panels are
\* polished together through handlePolishAll.
C28_OnePolishPerPanel ==
    \A panel \in {"suggestion", "personalized"} :
        Cardinality({p \in PolishCallIds :
            polish_calls[p].state = "sent" /\ polish_calls[p].panel = panel}) <= 1

\* C29: whenever the improved scores or the suggestion are non-null, they
\* were derived from the analysis currently displayed: an apply-tips response
\* that arrives after the analysis was replaced or cleared installs nothing
\* based on the earlier analysis.
C29_SuggestionFromDisplayedAnalysis ==
    (editor.suggestion # None \/ editor.improvedScores # None) =>
        /\ editor.suggestion # None
        /\ editor.analysis # None
        /\ editor.analysis[1].call = editor.suggestion[1].analysed_by
====
